---- MODULE Spec2Model ----
(***************************************************************************)
(* Model of the reporting engine of AI-Reporting: report_ai.py (column     *)
(* classification, statistics, chart selection) and the places of app.py   *)
(* that call it.                                                           *)
(*                                                                         *)
(* A DataFrame is a record [nrows, cols]; a column is a record             *)
(* [name, dtype, vals]; a cell is <<>> (missing: NaN / None / <NA>) or     *)
(* <<v>>.  Python's None is <<>> as well, a chosen column name c is <<c>>. *)
(* Column names are one-character strings, so that the substring test      *)
(* `c.lower() in lowered` is membership of a character in a sequence of    *)
(* characters.  A chart name is the sequence of the fragments of the       *)
(* (f-)string the code builds it from.                                     *)
(***************************************************************************)
EXTENDS Integers, Sequences, FiniteSets, TLC

VARIABLES df, args, pc, ret

vars == <<df, args, pc, ret>>

\* ------------------------------------------------------------------ bounds
MaxLen == 4
MaxHeatRows == 3
MaxRows == 1
MaxCols == 2
MaxK == 2
MaxBaseLen == 7
MaxShades == 3
MaxQualityRows == 3
MaxSummaryRows == 3

\* ------------------------------------------------------- values and cells
None == <<>>

Missing == <<>>

Some(v) == <<v>>

Truthy(o) == o # None /\ o[1] # ""

Min(a, b) == IF a <= b THEN a ELSE b

Text29 == "aaaaaaaaaaaaaaaaaaaaaaaaaaaaa"

Text30 == "aaaaaaaaaaaaaaaaaaaaaaaaaaaaaa"

Text31 == "aaaaaaaaaaaaaaaaaaaaaaaaaaaaaaa"

\* len() of the strings the model draws cell values from
StrLen(v) ==
    CASE v = Text29 -> 29
      [] v = Text30 -> 30
      [] v = Text31 -> 31
      [] v = "Missing" -> 7
      [] v = "Other" -> 5
      [] v = "" -> 0
      [] OTHER -> 1

\* str.lower() on the one-character strings of the model
Lower(c) ==
    CASE c = "A" -> "a"
      [] c = "B" -> "b"
      [] c = "C" -> "c"
      [] c = "D" -> "d"
      [] c = "L" -> "l"
      [] c = "N" -> "n"
      [] c = "S" -> "s"
      [] c = "V" -> "v"
      [] c = "X" -> "x"
      [] OTHER -> c

LowerSeq(s) == [i \in 1..Len(s) |-> Lower(s[i])]

\* --------------------------------------------------------- pandas helpers
Range(s) == {s[i] : i \in 1..Len(s)}

\* df[col]: the column named col (names are unique)
Column(d, col) ==
    LET i == CHOOSE j \in 1..Len(d.cols) : d.cols[j].name = col
    IN d.cols[i]

ColumnNames(d) == [i \in 1..Len(d.cols) |-> d.cols[i].name]

\* series.astype("string").fillna(fill) on a column of str values
AsStringFillnaDropped(vals, fill) ==
    SelectSeq(vals, LAMBDA c : c # Missing)

AsStringFillna(vals, fill) ==
    [i \in 1..Len(vals) |-> IF vals[i] = Missing THEN Some(fill) ELSE vals[i]]

\* the distinct elements of s in order of first occurrence (hash table order)
RECURSIVE Uniques(_)
Uniques(s) ==
    IF s = <<>> THEN <<>>
    ELSE LET u == Uniques(SubSeq(s, 1, Len(s) - 1))
             x == s[Len(s)]
         IN IF x \in Range(u) THEN u ELSE Append(u, x)

CountOf(s, x) == Cardinality({i \in 1..Len(s) : s[i] = x})

\* k1 >= k2 for sort keys, which are tuples of integers compared column by column
RECURSIVE KeyGeq(_, _)
KeyGeq(k1, k2) ==
    IF k1 = <<>> THEN TRUE
    ELSE IF k1[1] # k2[1] THEN k1[1] > k2[1]
         ELSE KeyGeq(Tail(k1), Tail(k2))

\* insert index i after every index whose key is >= keys[i] (stable, descending)
RECURSIVE InsertDesc(_, _, _)
InsertDesc(sorted, i, keys) ==
    IF sorted = <<>> THEN <<i>>
    ELSE IF KeyGeq(keys[sorted[1]], keys[i])
         THEN <<sorted[1]>> \o InsertDesc(Tail(sorted), i, keys)
         ELSE <<i>> \o sorted

RECURSIVE SortedIndexDesc(_, _)
SortedIndexDesc(n, keys) ==
    IF n = 0 THEN <<>>
    ELSE InsertDesc(SortedIndexDesc(n - 1, keys), n, keys)

\* sort_values(ascending=False): rows s ordered by their keys, largest first;
\* rows with equal keys keep their order
SortDesc(s, keys) ==
    LET idx == SortedIndexDesc(Len(s), keys)
    IN [j \in 1..Len(s) |-> s[idx[j]]]

\* Series.value_counts(dropna=True): rows [value, count], most frequent first;
\* values of equal count stay in order of first occurrence
ValueCounts(s) ==
    LET present == SelectSeq(s, LAMBDA c : c # Missing)
        u == Uniques(present)
        rows == [i \in 1..Len(u) |-> [value |-> u[i][1], count |-> CountOf(present, u[i])]]
    IN SortDesc(rows, [i \in 1..Len(u) |-> <<rows[i].count>>])

\* Series.head(n) / DataFrame.head(n)
HeadNLast(s, n) ==
    IF n >= 0 THEN SubSeq(s, Len(s) - Min(n, Len(s)) + 1, Len(s))
    ELSE SubSeq(s, 1, Len(s) + n)

HeadN(s, n) ==
    IF n >= 0 THEN SubSeq(s, 1, Min(n, Len(s)))
    ELSE SubSeq(s, 1, Len(s) + n)

\* ------------------------------------------------------------ report_ai.py
categorical_volume_chart(d, col, max_categories) ==
    LET s == AsStringFillna(Column(d, col).vals, "Missing")
        vc == HeadN(ValueCounts(s), max_categories)
    IN [kind |-> "bar",
        title |-> <<"Category volume: ", col>>,
        x |-> col,
        y |-> "count",
        data |-> vc]

\* a.where(a.isin(top), other=...): cells outside top are replaced
WhereIsinDropped(s, top, other) ==
    SelectSeq(s, LAMBDA c : c \in top)

WhereIsin(s, top, other) ==
    [i \in 1..Len(s) |-> IF s[i] \in top THEN s[i] ELSE Some(other)]

\* pd.crosstab(a, b) of two series without missing cells: the labels that
\* occur in a and in b, and for every pair of labels the number of rows
Crosstab(a, b) ==
    LET n == Min(Len(a), Len(b))
        idx == {a[i][1] : i \in 1..n}
        cols == {b[i][1] : i \in 1..n}
    IN [index |-> idx,
        columns |-> cols,
        cell |-> [rc \in idx \X cols |->
                    Cardinality({i \in 1..n : a[i][1] = rc[1] /\ b[i][1] = rc[2]})]]

\* the index of value_counts().head(n), as the set isin() tests against
TopValues(s, n) ==
    LET vc == HeadN(ValueCounts(s), n)
    IN {Some(vc[i].value) : i \in 1..Len(vc)}

categorical_relationship_heatmap(d, col_a, col_b, max_categories) ==
    LET a == AsStringFillna(Column(d, col_a).vals, "Missing")
        b == AsStringFillna(Column(d, col_b).vals, "Missing")
        top_a == TopValues(a, max_categories)
        top_b == TopValues(b, max_categories)
        a_filtered == WhereIsin(a, top_a, "Other")
        b_filtered == WhereIsin(b, top_b, "Other")
    IN [kind |-> "imshow",
        title |-> <<"Category relationship: ", col_a, " vs ", col_b>>,
        x |-> col_b,
        y |-> col_a,
        data |-> Crosstab(a_filtered, b_filtered)]

\* pick_numeric_columns / pick_non_numeric_columns: select_dtypes keeps the
\* column order of the frame
pick_numeric_columns(d) ==
    LET c == SelectSeq(d.cols, LAMBDA col : col.dtype = "number")
    IN [i \in 1..Len(c) |-> c[i].name]

pick_non_numeric_columns(d) ==
    LET c == SelectSeq(d.cols, LAMBDA col : col.dtype # "number")
    IN [i \in 1..Len(c) |-> c[i].name]

RECURSIVE SumSeq(_)
SumSeq(s) == IF s = <<>> THEN 0 ELSE s[1] + SumSeq(Tail(s))

TextLikeMinAvgLen == 30

\* s.str.len().mean() >= 30, compared without division: sum >= 30 * n
\* is_text_like answering False for every column: no column is set apart
is_text_like_never(vals) == FALSE

\* is_text_like with the threshold excluded: a mean of exactly 30 is not enough
is_text_like_strict(vals) ==
    LET s == SelectSeq(vals, LAMBDA c : c # Missing)
        lens == [i \in 1..Len(s) |-> StrLen(s[i][1])]
    IN IF s = <<>> THEN FALSE
       ELSE SumSeq(lens) > TextLikeMinAvgLen * Len(s)

is_text_like(vals) ==
    LET s == SelectSeq(vals, LAMBDA c : c # Missing)
        lens == [i \in 1..Len(s) |-> StrLen(s[i][1])]
    IN IF s = <<>> THEN FALSE
       ELSE SumSeq(lens) >= TextLikeMinAvgLen * Len(s)

\* a float is a fraction <<num, den>> with den > 0; NaN is None
Frac(n, d) == <<n, d>>

Abs(x) == IF x < 0 THEN -x ELSE x

\* n / d rounded to the nearest integer, halves to the even neighbour
RoundHalfEven(n, d) ==
    LET q == n \div d
        r == n % d
    IN IF 2 * r < d THEN q
       ELSE IF 2 * r > d THEN q + 1
       ELSE IF q % 2 = 0 THEN q ELSE q + 1

\* safe_number without the pd.isna test: NaN is formatted as well
safe_number_formats_nan(x) ==
    IF x = None THEN Some([type |-> "str", grouping |-> FALSE, hundredths |-> 0])
    ELSE Some([type |-> "str",
               grouping |-> Abs(x[1]) >= 1000 * x[2],
               hundredths |-> RoundHalfEven(100 * x[1], x[2])])

\* safe_number: None for NaN, else the str f"{x:.2f}" (f"{x:,.2f}" from 1000
\* on), kept as the number of hundredths it prints
safe_number(x) ==
    IF x = None THEN None
    ELSE Some([type |-> "str",
               grouping |-> Abs(x[1]) >= 1000 * x[2],
               hundredths |-> RoundHalfEven(100 * x[1], x[2])])

\* the non-missing numbers of a numeric column
Numbers(vals) ==
    LET s == SelectSeq(vals, LAMBDA c : c # Missing)
    IN [i \in 1..Len(s) |-> s[i][1]]

\* the mean with the missing cells counted as rows
SeriesMeanOverRows(vals) ==
    LET x == Numbers(vals)
    IN IF x = <<>> THEN None ELSE Frac(SumSeq(x), Len(vals))

SeriesMean(vals) ==
    LET x == Numbers(vals)
    IN IF x = <<>> THEN None ELSE Frac(SumSeq(x), Len(x))

SeriesMin(vals) ==
    LET x == Numbers(vals)
    IN IF x = <<>> THEN None
       ELSE Frac(CHOOSE m \in Range(x) : \A y \in Range(x) : m <= y, 1)

SeriesMax(vals) ==
    LET x == Numbers(vals)
    IN IF x = <<>> THEN None
       ELSE Frac(CHOOSE m \in Range(x) : \A y \in Range(x) : m >= y, 1)

SeriesMedian(vals) ==
    LET x == Numbers(vals)
        n == Len(x)
        desc == SortDesc(x, [i \in 1..n |-> <<x[i]>>])
    IN IF n = 0 THEN None
       ELSE IF n % 2 = 1 THEN Frac(desc[(n + 1) \div 2], 1)
       ELSE Frac(desc[n \div 2] + desc[n \div 2 + 1], 2)

MissingCount(vals) == Cardinality({i \in 1..Len(vals) : vals[i] = Missing})

\* str() of a value of column col: a str is itself, a number of an int64
\* column prints as "1", of a float64 column (one with missing cells) as "1.0"
NumStr(v) ==
    CASE v = 0 -> "0"
      [] v = 1 -> "1"
      [] v = 2 -> "2"
      [] v = 3 -> "3"

PyStr(col, v) ==
    IF col.dtype # "number" THEN <<v>>
    ELSE IF MissingCount(col.vals) > 0 THEN <<NumStr(v), ".0">>
    ELSE <<NumStr(v)>>

\* numeric_stats: describe() of the numeric columns; the std and the 25% and
\* 75% columns are floats the model does not carry
numeric_stats(d, numeric_cols) ==
    IF numeric_cols = <<>> THEN <<>>
    ELSE [i \in 1..Len(numeric_cols) |->
            LET v == Column(d, numeric_cols[i]).vals
            IN [column |-> numeric_cols[i],
                count |-> Len(Numbers(v)),
                mean |-> SeriesMean(v),
                min |-> SeriesMin(v),
                median |-> SeriesMedian(v),
                max |-> SeriesMax(v)]]

TopN == 5

categorical_stats(d, cat_cols, top_n) ==
    [i \in 1..Len(cat_cols) |->
        LET s == AsStringFillna(Column(d, cat_cols[i]).vals, "Missing")
            vc == ValueCounts(s)
        IN [column |-> cat_cols[i],
            unique_values |-> Len(vc),
            top_value |-> IF vc # <<>> THEN Some(vc[1].value) ELSE None,
            top_count |-> IF vc # <<>> THEN vc[1].count ELSE 0,
            top_values |-> HeadN(vc, top_n)]]

\* QualityRow with the percentage cut off after two decimals, not rounded
QualityRowTruncated(d, col) ==
    LET total_rows == d.nrows
        missing == MissingCount(col.vals)
        vc == ValueCounts(col.vals)
    IN [column |-> col.name,
        missing |-> missing,
        missing_percent |-> IF total_rows # 0
                            THEN (missing * 10000) \div total_rows
                            ELSE 0,
        unique |-> Len(vc),
        top_value |-> IF vc # <<>> THEN Some(PyStr(col, vc[1].value)) ELSE None,
        top_count |-> IF vc # <<>> THEN vc[1].count ELSE 0]

\* one row of column_quality_summary; missing_percent is kept in hundredths
\* of a percent: round(missing / total_rows * 100, 2)
QualityRow(d, col) ==
    LET total_rows == d.nrows
        missing == MissingCount(col.vals)
        vc == ValueCounts(col.vals)
    IN [column |-> col.name,
        missing |-> missing,
        missing_percent |-> IF total_rows # 0
                            THEN RoundHalfEven(missing * 10000, total_rows)
                            ELSE 0,
        unique |-> Len(vc),
        top_value |-> IF vc # <<>> THEN Some(PyStr(col, vc[1].value)) ELSE None,
        top_count |-> IF vc # <<>> THEN vc[1].count ELSE 0]

\* the exception column_quality_summary raises, None when it returns: for a
\* frame without columns pd.DataFrame([]) has no columns either, and
\* sort_values(["missing", "unique"]) raises KeyError
column_quality_summary_raises(d) ==
    IF d.cols = <<>> THEN Some("KeyError") ELSE None

\* column_quality_summary sorted by the missing count alone
column_quality_summary_by_missing(d) ==
    LET details == [i \in 1..Len(d.cols) |-> QualityRow(d, d.cols[i])]
    IN SortDesc(details, [i \in 1..Len(details) |-> <<details[i].missing>>])

column_quality_summary(d) ==
    LET details == [i \in 1..Len(d.cols) |-> QualityRow(d, d.cols[i])]
    IN SortDesc(details, [i \in 1..Len(details) |-> <<details[i].missing, details[i].unique>>])

text_length_chart(d, col) ==
    LET s == AsStringFillna(Column(d, col).vals, "")
    IN [kind |-> "histogram",
        title |-> <<"Text length distribution: ", col>>,
        x |-> "length",
        data |-> [i \in 1..Len(s) |-> StrLen(s[i][1])]]

\* the first column of cols whose lower-cased name occurs in the lower-cased
\* instructions, None when there is none
FirstMentioned(cols, instructions) ==
    LET lowered == LowerSeq(instructions)
        hits == SelectSeq(cols, LAMBDA c : Lower(c) \in Range(lowered))
    IN IF hits # <<>> THEN Some(hits[1]) ELSE None

pick_primary_numeric_chosen_only(numeric_cols, user_choice, instructions) ==
    IF Truthy(user_choice) /\ user_choice[1] \in Range(numeric_cols) THEN user_choice
    ELSE None

\* pick_primary_numeric falling back to the last numeric column
pick_primary_numeric_last(numeric_cols, user_choice, instructions) ==
    IF Truthy(user_choice) /\ user_choice[1] \in Range(numeric_cols) THEN user_choice
    ELSE IF FirstMentioned(numeric_cols, instructions) # None
         THEN FirstMentioned(numeric_cols, instructions)
    ELSE IF numeric_cols # <<>> THEN Some(numeric_cols[Len(numeric_cols)]) ELSE None

pick_primary_numeric(numeric_cols, user_choice, instructions) ==
    IF Truthy(user_choice) /\ user_choice[1] \in Range(numeric_cols) THEN user_choice
    ELSE IF FirstMentioned(numeric_cols, instructions) # None
         THEN FirstMentioned(numeric_cols, instructions)
    ELSE IF numeric_cols # <<>> THEN Some(numeric_cols[1]) ELSE None

pick_primary_category_chosen_only(cat_cols, user_choice, instructions) ==
    IF Truthy(user_choice) /\ user_choice[1] \in Range(cat_cols) THEN user_choice
    ELSE None

pick_primary_category(cat_cols, user_choice, instructions) ==
    IF Truthy(user_choice) /\ user_choice[1] \in Range(cat_cols) THEN user_choice
    ELSE IF FirstMentioned(cat_cols, instructions) # None
         THEN FirstMentioned(cat_cols, instructions)
    ELSE IF cat_cols # <<>> THEN Some(cat_cols[1]) ELSE None

TotalMissingCells(d) ==
    SumSeq([i \in 1..Len(d.cols) |-> MissingCount(d.cols[i].vals)])

build_report_summary(d, numeric_cols, cat_cols, primary_numeric, primary_cat) ==
    LET num == IF Truthy(primary_numeric)
               THEN LET series == Column(d, primary_numeric[1]).vals
                    IN [primary_numeric_column |-> primary_numeric,
                        primary_mean |-> safe_number(SeriesMean(series)),
                        primary_median |-> safe_number(SeriesMedian(series)),
                        primary_min |-> safe_number(SeriesMin(series)),
                        primary_max |-> safe_number(SeriesMax(series))]
               ELSE [primary_numeric_column |-> None,
                     primary_mean |-> None,
                     primary_median |-> None,
                     primary_min |-> None,
                     primary_max |-> None]
        cat == IF Truthy(primary_cat)
               THEN LET s == AsStringFillna(Column(d, primary_cat[1]).vals, "Missing")
                        vc == ValueCounts(s)
                    IN [primary_categorical_column |-> primary_cat,
                        top_category_label |-> IF vc # <<>> THEN Some(vc[1].value) ELSE None,
                        top_category_count |-> IF vc # <<>> THEN Some(vc[1].count) ELSE Some(0)]
               ELSE [primary_categorical_column |-> None,
                     top_category_label |-> None,
                     top_category_count |-> None]
    IN num @@ cat @@ [total_missing_cells |-> TotalMissingCells(d)]

\* dict.get(key): None for a key the dict does not hold
Get(dict, key) == IF key \in DOMAIN dict THEN dict[key] ELSE None

Visual(name, fig) == [name |-> name, fig |-> fig]

MissingChartRows == 25

FallbackVolumeCharts == 2

HeatmapMaxCategories == 15

\* the pair of columns of the heatmap: the chosen pair when both are distinct
\* categorical columns, else the first two categorical columns, else None
\* the heatmap given the caller's max_categories as it is
HeatmapLimitUncapped(max_categories) == max_categories

\* min(max_categories, 15): the number of values the heatmap keeps per column
HeatmapLimit(max_categories) == Min(max_categories, HeatmapMaxCategories)

HeatmapColumnsChosenOnly(cat_cols, a, b) ==
    IF /\ Truthy(a)
       /\ Truthy(b)
       /\ a[1] \in Range(cat_cols)
       /\ b[1] \in Range(cat_cols)
       /\ a # b
    THEN Some(<<a[1], b[1]>>)
    ELSE None

HeatmapColumns(cat_cols, a, b) ==
    IF /\ Truthy(a)
       /\ Truthy(b)
       /\ a[1] \in Range(cat_cols)
       /\ b[1] \in Range(cat_cols)
       /\ a # b
    THEN Some(<<a[1], b[1]>>)
    ELSE IF Len(cat_cols) >= 2 THEN Some(<<cat_cols[1], cat_cols[2]>>)
    ELSE None

\* lines 190-209 and 220-245 of build_visuals: the classification of the
\* columns and the columns the charts are built on
Selection(d, instructions, user_choices) ==
    LET numeric_cols == pick_numeric_columns(d)
        non_numeric_cols_all == pick_non_numeric_columns(d)
        cat_cols == SelectSeq(non_numeric_cols_all,
                              LAMBDA col : ~is_text_like(Column(d, col).vals))
        text_like_cols == SelectSeq(non_numeric_cols_all,
                                    LAMBDA col : is_text_like(Column(d, col).vals))
        x_num == Get(user_choices, "compare_numeric_x")
        y_num == Get(user_choices, "compare_numeric_y")
    IN [numeric_cols |-> numeric_cols,
        cat_cols |-> cat_cols,
        text_like_cols |-> text_like_cols,
        primary_numeric |-> pick_primary_numeric(numeric_cols,
                                                 Get(user_choices, "primary_numeric"),
                                                 instructions),
        primary_cat |-> pick_primary_category(cat_cols,
                                              Get(user_choices, "category_volume_col"),
                                              instructions),
        x_num |-> x_num,
        y_num |-> y_num,
        scatter |-> /\ Truthy(x_num)
                    /\ Truthy(y_num)
                    /\ x_num[1] \in Range(numeric_cols)
                    /\ y_num[1] \in Range(numeric_cols)
                    /\ x_num # y_num,
        pair |-> HeatmapColumns(cat_cols,
                                Get(user_choices, "compare_category_a"),
                                Get(user_choices, "compare_category_b"))]

\* the columns the charts and the summary read with df[col]
Accessed(sel) ==
    (IF Truthy(sel.primary_numeric) THEN {sel.primary_numeric[1]} ELSE {})
    \cup (IF Truthy(sel.primary_cat) THEN {sel.primary_cat[1]} ELSE {})
    \cup (IF sel.scatter THEN {sel.x_num[1], sel.y_num[1]} ELSE {})
    \cup (IF sel.pair # None THEN {sel.pair[1][1], sel.pair[1][2]} ELSE {})

\* the exception build_visuals raises, None when it returns: the one of
\* column_quality_summary (line 202), and df[col] raises KeyError for a col
\* that is not a column of the frame
build_visuals_raises(d, report_type, instructions, user_choices, max_categories) ==
    IF column_quality_summary_raises(d) # None THEN column_quality_summary_raises(d)
    ELSE IF Accessed(Selection(d, instructions, user_choices)) \subseteq Range(ColumnNames(d))
    THEN None
    ELSE Some("KeyError")

\* lines 202-258 of build_visuals, on the selection sel of lines 190-245
BuildCharts(d, sel, max_categories) ==
    LET numeric_cols == sel.numeric_cols
        cat_cols == sel.cat_cols
        text_like_cols == sel.text_like_cols
        quality_df == column_quality_summary(d)
        numeric_df == numeric_stats(d, numeric_cols)
        categorical_df == categorical_stats(d, cat_cols, TopN)
        primary_numeric == sel.primary_numeric
        primary_cat == sel.primary_cat
        report_summary == build_report_summary(d, numeric_cols, cat_cols,
                                               primary_numeric, primary_cat)
        missing_total == SumSeq([i \in 1..Len(quality_df) |-> quality_df[i].missing])
        v_missing ==
            IF missing_total > 0
            THEN LET miss == HeadN(SortDesc(quality_df,
                                            [i \in 1..Len(quality_df) |->
                                                <<quality_df[i].missing>>]),
                                   MissingChartRows)
                 IN <<Visual(<<"missing_values">>,
                             [kind |-> "bar",
                              title |-> <<"Missing values by column">>,
                              x |-> "column",
                              y |-> "missing",
                              data |-> miss])>>
            ELSE <<>>
        x_num == sel.x_num
        y_num == sel.y_num
        v_hist ==
            IF Truthy(primary_numeric)
            THEN <<Visual(<<"numeric_distribution">>,
                          [kind |-> "histogram",
                           title |-> <<"Distribution of ", primary_numeric[1]>>,
                           x |-> primary_numeric[1],
                           data |-> Column(d, primary_numeric[1]).vals])>>
            ELSE <<>>
        v_scatter ==
            IF sel.scatter
            THEN <<Visual(<<"numeric_comparison_scatter">>,
                          [kind |-> "scatter",
                           title |-> <<y_num[1], " vs ", x_num[1]>>,
                           x |-> x_num[1],
                           y |-> y_num[1],
                           data |-> [i \in 1..d.nrows |->
                                       <<Column(d, x_num[1]).vals[i],
                                         Column(d, y_num[1]).vals[i]>>]])>>
            ELSE <<>>
        v_volume ==
            IF Truthy(primary_cat)
            THEN <<Visual(<<"category_volume_", primary_cat[1]>>,
                          categorical_volume_chart(d, primary_cat[1], max_categories))>>
            ELSE LET two == HeadN(cat_cols, FallbackVolumeCharts)
                 IN [i \in 1..Len(two) |->
                       Visual(<<"category_volume_", two[i]>>,
                              categorical_volume_chart(d, two[i], max_categories))]
        pair == sel.pair
        v_heatmap ==
            IF pair # None
            THEN <<Visual(<<"category_relationship_heatmap">>,
                          categorical_relationship_heatmap(
                              d, pair[1][1], pair[1][2],
                              HeatmapLimit(max_categories)))>>
            ELSE <<>>
        v_text ==
            IF text_like_cols # <<>>
            THEN <<Visual(<<"text_length_", text_like_cols[1]>>,
                          text_length_chart(d, text_like_cols[1]))>>
            ELSE <<>>
        visuals == v_missing \o v_hist \o v_scatter \o v_volume \o v_heatmap \o v_text
    IN <<report_summary, visuals, quality_df, numeric_df, categorical_df>>

\* build_visuals returns the 5-tuple
\* (report_summary, visuals, quality_df, numeric_df, categorical_df)
build_visuals(d, report_type, instructions, user_choices, max_categories) ==
    BuildCharts(d, Selection(d, instructions, user_choices), max_categories)

\* ----------------------------------------------------------- user_choices
\* the dict app.py passes to build_visuals
AppDict(p, x, y, v, a, b, r, mode, value_col) ==
    [primary_numeric |-> p,
     scatter_x |-> x,
     scatter_y |-> y,
     category_volume |-> v,
     category_a |-> a,
     category_b |-> b,
     radial_category_col |-> r,
     radial_categories |-> <<>>,
     radial_mode |-> Some(mode),
     radial_value_col |-> value_col]

\* the dict in count mode: one group of options set, the others None
AppChoices(p, x, y, v, a, b, r) == AppDict(p, x, y, v, a, b, r, "count", None)

\* the dict with the keys build_visuals reads
EngineChoices(p, x, y, v, a, b) ==
    [primary_numeric |-> p,
     compare_numeric_x |-> x,
     compare_numeric_y |-> y,
     category_volume_col |-> v,
     compare_category_a |-> a,
     compare_category_b |-> b]

\* ------------------------------------------------ Python calls (app.py)
\* a Python value with its type
PyValue(type, value) == [type |-> type, value |-> value]

\* def build_visuals(df, report_type, instructions, user_choices, max_categories=20)
BuildVisualsParams == <<"df", "report_type", "instructions", "user_choices", "max_categories">>

DefaultMaxCategories == 20

BuildVisualsDefaults == [max_categories |-> PyValue("int", DefaultMaxCategories)]

\* the TypeError of binding a call's arguments to the parameters, None when
\* they bind: too many positional arguments, an unknown keyword, a parameter
\* given twice, a parameter without default left out
BindError(call) ==
    LET params == BuildVisualsParams
        npos == Len(call.positional)
    IN IF npos > Len(params) THEN Some("TypeError")
       ELSE IF \E k \in DOMAIN call.keywords : k \notin Range(params) THEN Some("TypeError")
       ELSE IF \E i \in 1..npos : params[i] \in DOMAIN call.keywords THEN Some("TypeError")
       ELSE IF \E i \in (npos + 1)..Len(params) :
                  /\ params[i] \notin DOMAIN call.keywords
                  /\ params[i] \notin DOMAIN BuildVisualsDefaults
            THEN Some("TypeError")
       ELSE None

\* the value each parameter is bound to; a parameter left out without a
\* default is bound to None here (BindError reports it)
Bound(call) ==
    [name \in Range(BuildVisualsParams) |->
        LET i == CHOOSE j \in 1..Len(BuildVisualsParams) : BuildVisualsParams[j] = name
        IN IF i <= Len(call.positional) THEN call.positional[i]
           ELSE IF name \in DOMAIN call.keywords THEN call.keywords[name]
           ELSE IF name \in DOMAIN BuildVisualsDefaults THEN BuildVisualsDefaults[name]
           ELSE PyValue("NoneType", None)]

\* whether build_visuals gets as far as (instructions or "").lower(): one of
\* the two pick_primary_* functions does not return the chosen column
LoweredReached(d, u) ==
    \/ ~(/\ Truthy(Get(u, "primary_numeric"))
         /\ Get(u, "primary_numeric")[1] \in Range(pick_numeric_columns(d)))
    \/ ~(/\ Truthy(Get(u, "category_volume_col"))
         /\ Get(u, "category_volume_col")[1] \in Range(pick_non_numeric_columns(d))
         /\ ~is_text_like(Column(d, Get(u, "category_volume_col")[1]).vals))

\* the exception the body of build_visuals raises on the bound arguments,
\* None when it returns: user_choices.get (line 206) needs a dict,
\* (instructions or "").lower() (lines 131, 142) a str or a falsy value
BodyError(bound) ==
    IF bound.df.type # "DataFrame" THEN Some("AttributeError")
    ELSE IF column_quality_summary_raises(bound.df.value) # None
         THEN column_quality_summary_raises(bound.df.value)
    ELSE IF bound.user_choices.type # "dict" THEN Some("AttributeError")
    ELSE IF bound.instructions.type \notin {"str", "NoneType"}
         THEN IF /\ bound.instructions.value # <<>>
                 /\ LoweredReached(bound.df.value, bound.user_choices.value)
              THEN Some("AttributeError")
              ELSE None
    ELSE build_visuals_raises(bound.df.value, bound.report_type.value,
                              bound.instructions.value, bound.user_choices.value,
                              bound.max_categories.value)

\* a, b, c, d = result: ValueError when result is not a tuple of ntargets values
Unpack(result, ntargets) ==
    IF Len(result) # ntargets
    THEN [exc |-> Some("ValueError"), outputs |-> <<>>]
    ELSE [exc |-> None, outputs |-> result]

\* the body of build_visuals on the bound arguments, then the unpacking
RunBody(bound, body_error, ntargets) ==
    IF body_error # None THEN [exc |-> body_error, outputs |-> <<>>]
    ELSE Unpack(build_visuals(bound.df.value, bound.report_type.value,
                              bound.instructions.value, bound.user_choices.value,
                              bound.max_categories.value),
                ntargets)

RunCall(bound, bind_error, ntargets) ==
    IF bind_error # None THEN [exc |-> bind_error, outputs |-> <<>>]
    ELSE RunBody(bound, BodyError(bound), ntargets)

\* a, b, c, d = <call>: the exception of the call, or the ValueError of
\* unpacking a tuple of another length into ntargets names, or the outputs
CallOutcome(call, ntargets) == RunCall(Bound(call), BindError(call), ntargets)

\* the calls of app.py that name their arguments (lines 931-947, 1005-1021)
KeywordCall(d, user_choices, max_categories) ==
    [positional |-> <<>>,
     keywords |-> [df |-> PyValue("DataFrame", d),
                   report_type |-> PyValue("str", "Overview"),
                   user_choices |-> PyValue("dict", user_choices),
                   max_categories |-> PyValue("int", max_categories)]]

\* the calls of app.py with four positional arguments (lines 1072-1088,
\* 1112-1128, 1155-1171)
PositionalCall(d, user_choices, max_categories) ==
    [positional |-> <<PyValue("DataFrame", d),
                      PyValue("str", "Overview"),
                      PyValue("dict", user_choices),
                      PyValue("int", max_categories)>>,
     keywords |-> <<>>]

\* st.selectbox(options=cols): one of cols; None where app.py shows no box
Selectbox(cols) == IF cols = <<>> THEN {None} ELSE {Some(c) : c \in Range(cols)}

\* the calls app.py can make at a call site, for every choice in its widgets
SiteCalls(site, d, max_categories) ==
    LET numeric_cols == pick_numeric_columns(d)
        categorical_cols == pick_non_numeric_columns(d)
    IN CASE site = "key_statistics" ->
              {KeywordCall(d, AppChoices(p, None, None, None, None, None, None),
                           max_categories) : p \in Selectbox(numeric_cols)}
         [] site = "radial" ->
              {KeywordCall(d, AppDict(p, None, None, None, None, None, r, mode,
                                      IF mode = "sum" THEN vc ELSE None),
                           max_categories) :
                  p \in Selectbox(numeric_cols),
                  r \in {c \in Selectbox(categorical_cols) : Truthy(c)},
                  mode \in {"count", "sum"},
                  vc \in Selectbox(numeric_cols)}
         [] site = "scatter" ->
              {PositionalCall(d, AppChoices(None, x, y, None, None, None, None),
                              max_categories) :
                  x \in Selectbox(numeric_cols), y \in Selectbox(numeric_cols)}
         [] site = "bar" ->
              {PositionalCall(d, AppChoices(None, None, None, v, None, None, None),
                              max_categories) : v \in Selectbox(categorical_cols)}
         [] site = "heatmap" ->
              {PositionalCall(d, AppChoices(None, None, None, None, a, b, None),
                              max_categories) :
                  a \in Selectbox(categorical_cols), b \in Selectbox(categorical_cols)}

CallSites == {"key_statistics", "radial", "scatter", "bar", "heatmap"}

\* every call site unpacks the result into four names
UnpackTargets == 4

\* ------------------------------------------------------------- input sets
RECURSIVE SeqsUpTo(_, _)
SeqsUpTo(S, n) ==
    IF n = 0 THEN {<<>>}
    ELSE LET shorter == SeqsUpTo(S, n - 1)
         IN shorter \cup {Append(s, x) : s \in {t \in shorter : Len(t) = n - 1}, x \in S}

Cells(S) == {Missing} \cup {Some(v) : v \in S}

ObjectColumn(n, vals) == [name |-> n, dtype |-> "object", vals |-> vals]

NumberColumn(n, vals) == [name |-> n, dtype |-> "number", vals |-> vals]

VolumeValues == {"x", "y", "z", "Missing"}

\* ------------------------------------- calls of categorical_volume_chart
InitVolume ==
    /\ \E vals \in SeqsUpTo(Cells(VolumeValues), MaxLen) :
          df = [nrows |-> Len(vals), cols |-> <<ObjectColumn("B", vals)>>]
    /\ \E k \in 1..MaxK :
          args = [fn |-> "categorical_volume_chart", col |-> "B", max_categories |-> k]
    /\ pc = "ready"
    /\ ret = None

CallCategoricalVolumeChart ==
    /\ pc = "ready"
    /\ args.fn = "categorical_volume_chart"
    /\ ret' = categorical_volume_chart(df, args.col, args.max_categories)
    /\ pc' = "done"
    /\ UNCHANGED <<df, args>>

NextVolume == CallCategoricalVolumeChart

SpecVolume == InitVolume /\ [][NextVolume]_vars

\* ------------------------------------------------------------------ C1, C2
VolumeDone == pc = "done" /\ args.fn = "categorical_volume_chart"

\* the label a cell of the charted column is counted under
VolumeLabel(i) ==
    LET c == Column(df, args.col).vals[i]
    IN IF c = Missing THEN "Missing" ELSE c[1]

VolumeLabels == {VolumeLabel(i) : i \in 1..df.nrows}

ChartCategories == {ret.data[i].value : i \in 1..Len(ret.data)}

DataCount(v) == Cardinality({i \in 1..df.nrows : VolumeLabel(i) = v})

\* C1: the category-volume chart of a column with max_categories = k >= 1 has
\* at most k categories, each shown with its number of occurrences in the
\* column (missing counted as "Missing"), and no value left out of the chart
\* occurs strictly more often than a value in the chart.
C1_TruncationLaw ==
    VolumeDone =>
        /\ Len(ret.data) <= args.max_categories
        /\ Cardinality(ChartCategories) = Len(ret.data)
        /\ \A i \in 1..Len(ret.data) :
              /\ ret.data[i].value \in VolumeLabels
              /\ ret.data[i].count = DataCount(ret.data[i].value)
        /\ \A v \in VolumeLabels :
              v \notin ChartCategories =>
                 /\ Len(ret.data) = args.max_categories
                 /\ \A i \in 1..Len(ret.data) : DataCount(v) <= ret.data[i].count

\* a column with three distinct values of different counts, cut to one category
C1_Witness ==
    /\ VolumeDone
    /\ args.max_categories = 1
    /\ Cardinality(VolumeLabels) = 3
    /\ Len(ret.data) = 1
    /\ ret.data[1].count = 2

AllMissing(vals) == \A i \in 1..Len(vals) : vals[i] = Missing

\* C2: for R >= 1 rows and a column whose every value is missing, the
\* category-volume chart has exactly one category, "Missing", with count R.
C2_MissingAsCategory ==
    (VolumeDone /\ df.nrows >= 1 /\ AllMissing(Column(df, args.col).vals)) =>
        ret.data = <<[value |-> "Missing", count |-> df.nrows]>>

C2_Witness ==
    /\ VolumeDone
    /\ df.nrows = 3
    /\ AllMissing(Column(df, args.col).vals)
    /\ ret.data = <<[value |-> "Missing", count |-> 3]>>

\* ------------------------------ calls of categorical_relationship_heatmap
HeatValues == {"x", "y", "Other"}

InitHeatmap ==
    /\ \E n \in 0..MaxHeatRows :
         \E va \in [1..n -> Cells(HeatValues)], vb \in [1..n -> Cells(HeatValues)] :
            df = [nrows |-> n, cols |-> <<ObjectColumn("B", va), ObjectColumn("C", vb)>>]
    /\ \E k \in 1..MaxK :
          args = [fn |-> "categorical_relationship_heatmap",
                  col_a |-> "B", col_b |-> "C", max_categories |-> k]
    /\ pc = "ready"
    /\ ret = None

CallCategoricalRelationshipHeatmap ==
    /\ pc = "ready"
    /\ args.fn = "categorical_relationship_heatmap"
    /\ ret' = categorical_relationship_heatmap(df, args.col_a, args.col_b, args.max_categories)
    /\ pc' = "done"
    /\ UNCHANGED <<df, args>>

NextHeatmap == CallCategoricalRelationshipHeatmap

SpecHeatmap == InitHeatmap /\ [][NextHeatmap]_vars

\* ---------------------------------------------------------------------- C3
HeatDone == pc = "done" /\ args.fn = "categorical_relationship_heatmap"

\* the label of row i in column col, missing counted as "Missing"
HeatLabel(col, i) ==
    LET c == Column(df, col).vals[i]
    IN IF c = Missing THEN "Missing" ELSE c[1]

HeatLabels(col) == [i \in 1..df.nrows |-> Some(HeatLabel(col, i))]

\* the top-max_categories window of column col
Window(col) ==
    LET vc == HeadN(ValueCounts(HeatLabels(col)), args.max_categories)
    IN {vc[i].value : i \in 1..Len(vc)}

InWindow(col, i) == HeatLabel(col, i) \in Window(col)

\* the label each row is counted under: its own inside the window, "Other" outside
Buckets(col) ==
    LET w == Window(col)
    IN [i \in 1..df.nrows |->
          IF HeatLabel(col, i) \in w THEN HeatLabel(col, i) ELSE "Other"]

CellTotal ==
    LET S == ret.data.index \X ret.data.columns
        RECURSIVE Sum(_)
        Sum(T) == IF T = {} THEN 0
                  ELSE LET rc == CHOOSE x \in T : TRUE
                       IN ret.data.cell[rc] + Sum(T \ {rc})
    IN Sum(S)

RowsInsideBoth ==
    Cardinality({i \in 1..df.nrows : InWindow(args.col_a, i) /\ InWindow(args.col_b, i)})

\* C3 as stated: a row whose A or B value lies outside that column's window
\* contributes to no cell; no "Other" row or column appears unless "Other" is
\* a value of the data; the cell total is the number of rows inside both windows.
C3_DroppedOutsideWindow ==
    HeatDone =>
        /\ "Other" \in ret.data.index =>
              \E i \in 1..df.nrows : HeatLabel(args.col_a, i) = "Other"
        /\ "Other" \in ret.data.columns =>
              \E i \in 1..df.nrows : HeatLabel(args.col_b, i) = "Other"
        /\ CellTotal = RowsInsideBoth

\* C3 amended: a row whose A value (B value) lies outside that column's
\* top-max_categories window is counted under the row (column) label "Other";
\* every cell holds the number of rows with that pair of labels, and the cell
\* total equals the number of rows of the dataset.
C3_OtherBucket ==
    HeatDone =>
        LET bucket_a == Buckets(args.col_a)
            bucket_b == Buckets(args.col_b)
        IN /\ ret.data.index = {bucket_a[i] : i \in 1..df.nrows}
           /\ ret.data.columns = {bucket_b[i] : i \in 1..df.nrows}
           /\ \A rc \in ret.data.index \X ret.data.columns :
                 ret.data.cell[rc] =
                    Cardinality({i \in 1..df.nrows :
                                   bucket_a[i] = rc[1] /\ bucket_b[i] = rc[2]})
           /\ CellTotal = df.nrows

\* a row outside the window of A, in data without the value "Other", shown
\* in an "Other" row of the cross-tab
C3_Witness ==
    /\ HeatDone
    /\ df.nrows = 3
    /\ \E i \in 1..df.nrows : ~InWindow(args.col_a, i)
    /\ \A i \in 1..df.nrows : HeatLabel(args.col_a, i) # "Other"
    /\ "Other" \in ret.data.index
    /\ CellTotal = 3

\* -------------------------------------------------- calls of build_visuals
NumericNames == {"A", "N"}

ObjectNames == {"B", "C"}

Names == NumericNames \cup ObjectNames

NumericValues == {1}

ObjectValues == {"x", Text30}

\* the orders of at most n distinct column names
Layouts(n) == {l \in SeqsUpTo(Names, n) : \A i, j \in 1..Len(l) : l[i] = l[j] => i = j}

\* the columns named name with n rows
ColumnsNamed(name, n) ==
    IF name \in NumericNames
    THEN {NumberColumn(name, v) : v \in [1..n -> Cells(NumericValues)]}
    ELSE {ObjectColumn(name, v) : v \in [1..n -> Cells(ObjectValues)]}

RECURSIVE ColumnSeqs(_, _)
ColumnSeqs(l, n) ==
    IF l = <<>> THEN {<<>>}
    ELSE {Append(cs, col) : cs \in ColumnSeqs(SubSeq(l, 1, Len(l) - 1), n),
                            col \in ColumnsNamed(l[Len(l)], n)}

\* the frames with layout l and n rows
Frames(l, n) == {[nrows |-> n, cols |-> cs] : cs \in ColumnSeqs(l, n)}

DataFrames == UNION {Frames(l, n) : l \in Layouts(MaxCols), n \in 0..MaxRows}

Opt == {None} \cup {Some(n) : n \in Names}

\* the dicts with the option names of app.py
AppUserChoices ==
    {AppChoices(p, None, None, None, None, None, None) : p \in Opt}
    \cup {AppChoices(None, x, y, None, None, None, None) : x \in Opt, y \in Opt}
    \cup {AppChoices(None, None, None, v, None, None, None) : v \in Opt}
    \cup {AppChoices(None, None, None, None, a, b, None) : a \in Opt, b \in Opt}
    \cup {AppChoices(None, None, None, None, None, None, r) : r \in Opt}

\* the dicts with the option names build_visuals reads
EngineUserChoices ==
    {EngineChoices(p, None, None, None, None, None) : p \in Opt}
    \cup {EngineChoices(None, x, y, None, None, None) : x \in Opt, y \in Opt}
    \cup {EngineChoices(None, None, None, v, None, None) : v \in Opt}
    \cup {EngineChoices(None, None, None, None, a, b) : a \in Opt, b \in Opt}

UserChoices == AppUserChoices \cup EngineUserChoices

Instructions == {<<>>, <<"c">>, <<"N", " ", "b">>}

BuildVisualsArgs(choices) ==
    {[fn |-> "build_visuals",
      report_type |-> "Overview",
      instructions |-> ins,
      user_choices |-> u,
      max_categories |-> k] : u \in choices, ins \in Instructions, k \in 1..MaxK}

Init ==
    /\ df \in DataFrames
    /\ args \in BuildVisualsArgs(UserChoices)
    /\ pc = "ready"
    /\ ret = None

CallBuildVisuals ==
    /\ pc = "ready"
    /\ args.fn = "build_visuals"
    /\ LET exc == build_visuals_raises(df, args.report_type, args.instructions,
                                       args.user_choices, args.max_categories)
       IN IF exc = None
          THEN /\ ret' = build_visuals(df, args.report_type, args.instructions,
                                       args.user_choices, args.max_categories)
               /\ pc' = "done"
          ELSE /\ ret' = exc
               /\ pc' = "raised"
    /\ UNCHANGED <<df, args>>

Next == CallBuildVisuals

Spec == Init /\ [][Next]_vars

\* build_visuals called with the dicts of app.py only
InitInterface ==
    /\ df \in DataFrames
    /\ args \in BuildVisualsArgs(AppUserChoices)
    /\ pc = "ready"
    /\ ret = None

NextInterface == CallBuildVisuals

SpecInterface == InitInterface /\ [][NextInterface]_vars

\* ------------------------------------------------- C4 .. C9: build_visuals
BVDone == pc = "done" /\ args.fn = "build_visuals"

Visuals == ret[2]

Choice(key) == Get(args.user_choices, key)

NumericCols == pick_numeric_columns(df)

\* the categorical columns: non-numeric and not text-like, in frame order
CatCols ==
    SelectSeq(pick_non_numeric_columns(df),
              LAMBDA col : ~is_text_like(Column(df, col).vals))

Mentioned(cols) ==
    {i \in 1..Len(cols) : \E j \in 1..Len(args.instructions) :
                            Lower(args.instructions[j]) = Lower(cols[i])}

\* the column the code infers when the choice names none of cols: the first
\* one the instructions mention, else the first one
Inferred(cols) ==
    IF Mentioned(cols) # {}
    THEN cols[CHOOSE i \in Mentioned(cols) : \A j \in Mentioned(cols) : i <= j]
    ELSE cols[1]

Histograms == {i \in 1..Len(Visuals) : Visuals[i].name = <<"numeric_distribution">>}

Scatters == {i \in 1..Len(Visuals) : Visuals[i].fig.kind = "scatter"}

VolumeCharts == {i \in 1..Len(Visuals) : Visuals[i].fig.title[1] = "Category volume: "}

Heatmaps == {i \in 1..Len(Visuals) : Visuals[i].fig.kind = "imshow"}

SameCategoryTwice ==
    \/ Truthy(Choice("category_a")) /\ Choice("category_a") = Choice("category_b")
    \/ /\ Truthy(Choice("compare_category_a"))
       /\ Choice("compare_category_a") = Choice("compare_category_b")

\* C4 as stated: when the two category choices name the same column,
\* build_visuals returns no category-relationship chart.
C4_NoHeatmapForSameColumn ==
    (BVDone /\ SameCategoryTwice) => Heatmaps = {}

\* C4 amended: when the two category choices name the same column,
\* build_visuals returns no category-relationship chart of that column with
\* itself; it returns exactly one category-relationship chart, built on the
\* first two categorical columns, when the dataset has two or more
\* categorical columns, and none otherwise.
C4_FallbackHeatmap ==
    (BVDone /\ SameCategoryTwice) =>
        /\ (Heatmaps # {}) <=> (Len(CatCols) >= 2)
        /\ Cardinality(Heatmaps) <= 1
        /\ \A i \in Heatmaps :
              /\ Visuals[i].fig.y # Visuals[i].fig.x
              /\ Visuals[i].fig.y = CatCols[1]
              /\ Visuals[i].fig.x = CatCols[2]

C4_Witness ==
    /\ BVDone
    /\ df.nrows = 1
    /\ Choice("compare_category_a") = Some("B")
    /\ Choice("compare_category_b") = Some("B")
    /\ CatCols = <<"C", "B">>
    /\ \E i \in Heatmaps : Visuals[i].fig.y = "C" /\ Visuals[i].fig.x = "B"

PrimaryChosen ==
    /\ Truthy(Choice("primary_numeric"))
    /\ Choice("primary_numeric")[1] \in Range(NumericCols)

ScatterChosen ==
    /\ Truthy(Choice("scatter_x"))
    /\ Truthy(Choice("scatter_y"))
    /\ Choice("scatter_x")[1] \in Range(NumericCols)
    /\ Choice("scatter_y")[1] \in Range(NumericCols)
    /\ Choice("scatter_x") # Choice("scatter_y")

\* C6: build_visuals includes a scatter chart if and only if the options
\* scatter_x and scatter_y name two distinct numeric columns of the dataset.
C6_ScatterIffChosen ==
    BVDone => ((Scatters # {}) <=> ScatterChosen)

VolumeChosen ==
    /\ Truthy(Choice("category_volume"))
    /\ Choice("category_volume")[1] \in Range(CatCols)

EngineVolumeChosen ==
    /\ Truthy(Choice("category_volume_col"))
    /\ Choice("category_volume_col")[1] \in Range(CatCols)

RadialCountChosen ==
    /\ Truthy(Choice("radial_category_col"))
    /\ Choice("radial_category_col")[1] \in Range(CatCols)
    /\ Choice("radial_mode") = Some("count")
    /\ Choice("radial_categories") = <<>>

\* C8: when radial_category_col names a categorical column and radial_mode is
\* "count" with no allow-list, the chart list holds a chart named
\* "radial_donut" whose slices are that column's value counts in descending
\* order, cut to max_categories.
C8_RadialDonut ==
    (BVDone /\ RadialCountChosen) =>
        \E i \in 1..Len(Visuals) :
           /\ Visuals[i].name = <<"radial_donut">>
           /\ Len(Visuals[i].fig.data) <= args.max_categories
           /\ \A j \in 1..(Len(Visuals[i].fig.data) - 1) :
                 Visuals[i].fig.data[j].count >= Visuals[i].fig.data[j + 1].count

\* app.py get_fig: the first chart stored under name, None when there is none
get_fig(visuals, name) ==
    LET hits == SelectSeq(visuals, LAMBDA v : v.name = <<name>>)
    IN IF hits # <<>> THEN Some(hits[1].fig) ELSE None

\* C9: every chart is named by a key that does not depend on the column
\* names, and get_fig with the key the interface uses for a chart kind returns
\* the chart whenever build_visuals built that kind.
C9_StableKeys ==
    BVDone =>
        /\ \A i \in 1..Len(Visuals) : Len(Visuals[i].name) = 1
        /\ \A i \in Histograms : get_fig(Visuals, "numeric_distribution") = Some(Visuals[i].fig)
        /\ \A i \in Scatters : get_fig(Visuals, "numeric_scatter") = Some(Visuals[i].fig)
        /\ \A i \in VolumeCharts : get_fig(Visuals, "category_volume") = Some(Visuals[i].fig)
        /\ \A i \in Heatmaps : get_fig(Visuals, "category_heatmap") = Some(Visuals[i].fig)

\* --------------------------------------------------------------------- C11
BVCalled == args.fn = "build_visuals" /\ pc # "ready"

\* C11: for a dataset of 0 rows, with any number of columns including none,
\* and any user_choices, build_visuals raises no exception and returns an
\* empty chart list.
C11_EmptyDatasetNoCharts ==
    (BVCalled /\ df.nrows = 0) => (pc = "done" /\ ret[2] = <<>>)

\* ------------------------------------- the build_visuals calls of app.py
SliderValues == {5, 20}

InitApp ==
    /\ df \in DataFrames
    /\ \E k \in SliderValues : args = [fn |-> "app.py", max_categories_main |-> k]
    /\ pc = "ready"
    /\ ret = None

AppCallBuildVisuals(site) ==
    /\ pc = "ready"
    /\ args.fn = "app.py"
    /\ \E call \in SiteCalls(site, df, args.max_categories_main) :
          ret' = [site |-> site, call |-> call] @@ CallOutcome(call, UnpackTargets)
    /\ pc' = IF ret'.exc = None THEN "done" ELSE "raised"
    /\ UNCHANGED <<df, args>>

NextApp == \E site \in CallSites : AppCallBuildVisuals(site)

SpecApp == InitApp /\ [][NextApp]_vars

\* --------------------------------------------------------------------- C10
\* C10: every call to build_visuals that app.py makes completes without
\* error and returns exactly the four outputs Summary, chart list,
\* numeric-stats table, categorical-stats table.
C10_AppCallsReturnFourOutputs ==
    (args.fn = "app.py" /\ pc # "ready") =>
        /\ pc = "done"
        /\ ret.exc = None
        /\ Len(ret.outputs) = 4

\* ------------------------------------------------ the palette (app.py)
\* A str is the sequence of its characters.
HexDigits == <<"0", "1", "2", "3", "4", "5", "6", "7",
               "8", "9", "a", "b", "c", "d", "e", "f">>

UpperHexDigits == <<"0", "1", "2", "3", "4", "5", "6", "7",
                    "8", "9", "A", "B", "C", "D", "E", "F">>

IsHexDigit(c) == c \in Range(HexDigits) \cup Range(UpperHexDigits)

\* the value of a hexadecimal digit
HexVal(c) ==
    IF c \in Range(HexDigits) THEN (CHOOSE i \in 1..16 : HexDigits[i] = c) - 1
    ELSE (CHOOSE i \in 1..16 : UpperHexDigits[i] = c) - 1

\* h[i:j] of Python, i and j counted from 0
Slice(h, i, j) == SubSeq(h, i + 1, Min(j, Len(h)))

\* h.lstrip("#")
RECURSIVE LStrip(_, _)
LStrip(h, c) == IF h # <<>> /\ h[1] = c THEN LStrip(Tail(h), c) ELSE h

Whitespace == {" "}

\* s.strip() as int() applies it
RECURSIVE StripSpace(_)
StripSpace(s) ==
    IF s # <<>> /\ s[1] \in Whitespace THEN StripSpace(Tail(s))
    ELSE IF s # <<>> /\ s[Len(s)] \in Whitespace THEN StripSpace(SubSeq(s, 1, Len(s) - 1))
    ELSE s

RECURSIVE DigitsValue(_)
DigitsValue(s) ==
    IF s = <<>> THEN 0
    ELSE 16 * DigitsValue(SubSeq(s, 1, Len(s) - 1)) + HexVal(s[Len(s)])

\* int(s, 16) for a str s of at most two characters: surrounding whitespace
\* is dropped, one sign is accepted, then at least one hexadecimal digit and
\* nothing else; None stands for the ValueError
IntBase16(s) ==
    LET t == StripSpace(s)
        signed == t # <<>> /\ t[1] \in {"+", "-"}
        digits == IF signed THEN Tail(t) ELSE t
    IN IF digits = <<>> \/ \E i \in 1..Len(digits) : ~IsHexDigit(digits[i])
       THEN None
       ELSE Some((IF t[1] = "-" THEN -1 ELSE 1) * DigitsValue(digits))

RECURSIVE DoubleEach(_)
DoubleEach(h) == IF h = <<>> THEN <<>> ELSE <<h[1], h[1]>> \o DoubleEach(Tail(h))

\* hex_to_rgb: Some of the three channels, None when int() raises ValueError
hex_to_rgb(h) ==
    LET h1 == LStrip(h, "#")
        h2 == IF Len(h1) = 3 THEN DoubleEach(h1) ELSE h1
        r == IntBase16(Slice(h2, 0, 2))
        g == IntBase16(Slice(h2, 2, 4))
        b == IntBase16(Slice(h2, 4, 6))
    IN IF r = None \/ g = None \/ b = None THEN None
       ELSE Some(<<r[1], g[1], b[1]>>)

\* int(x) of the fraction p / q, q > 0: truncation toward zero
Trunc(p, q) == IF p >= 0 THEN p \div q ELSE -((-p) \div q)

\* one channel of mix(a, b, t), t the fraction t[1] / t[2]: the sum
\* a + (b - a) * t is a float within rounding error of its exact value, so
\* where the exact value is a whole number other than a itself int() gives
\* that number or its neighbour toward zero
MixChannel(a, b, t) ==
    LET p == a * t[2] + (b - a) * t[1]
        q == Trunc(p, t[2])
    IN IF b = a THEN {a}
       ELSE IF p % t[2] # 0 THEN {q}
       ELSE IF q > 0 THEN {q - 1, q}
       ELSE IF q < 0 THEN {q, q + 1}
       ELSE {0}

\* mix(a, b, t): the tuples int() can give
mix(a, b, t) ==
    {<<r, g, bl>> : r \in MixChannel(a[1], b[1], t),
                    g \in MixChannel(a[2], b[2], t),
                    bl \in MixChannel(a[3], b[3], t)}

\* f"{v:02x}"
Format02x(v) ==
    LET m == Abs(v)
        hi == IF m >= 256 THEN <<HexDigits[(m \div 256) + 1]>> ELSE <<>>
        mid == IF m >= 16 THEN <<HexDigits[((m \div 16) % 16) + 1]>> ELSE <<>>
        digits == hi \o mid \o <<HexDigits[(m % 16) + 1]>>
        s == IF v < 0 THEN <<"-">> \o digits ELSE digits
    IN IF Len(s) < 2 THEN <<"0">> \o s ELSE s

rgb_to_hex(rgb) == <<"#">> \o Format02x(rgb[1]) \o Format02x(rgb[2]) \o Format02x(rgb[3])

DefaultBase == <<59, 130, 246>>

DarkTarget == <<245, 245, 245>>

LightStart == <<250, 250, 250>>

Max(a, b) == IF a >= b THEN a ELSE b

\* ts that starts at the base color: 0 + (i / max(1, n - 1)) * 0.75
ShadeTFromZero(i, n, dark_mode) ==
    LET d == Max(1, n - 1)
    IN IF dark_mode THEN <<75 * i, 100 * d>>
       ELSE <<100 * d - 70 * i, 100 * d>>

\* ts that turns back at every other step
ShadeTAlternating(i, n, dark_mode) ==
    LET d == Max(1, n - 1)
    IN IF dark_mode THEN <<5 * d + 75 * (i % 2), 100 * d>>
       ELSE <<20 * d + 70 * (i % 2), 100 * d>>

\* ts[i] as a fraction over 100 * max(1, n - 1):
\* 0.05 + (i / max(1, n - 1)) * 0.75 in dark mode, 0.20 + ... * 0.70 otherwise
ShadeT(i, n, dark_mode) ==
    LET d == Max(1, n - 1)
    IN IF dark_mode THEN <<5 * d + 75 * i, 100 * d>>
       ELSE <<20 * d + 70 * i, 100 * d>>

\* the shades of the first k of the n steps, for base the tuple of channels
RECURSIVE ShadesOfBase(_, _, _, _)
ShadesOfBase(base, n, dark_mode, k) ==
    IF k = 0 THEN {<<>>}
    ELSE LET t == ShadeT(k - 1, n, dark_mode)
             rgbs == IF dark_mode THEN mix(base, DarkTarget, t)
                     ELSE mix(LightStart, base, t)
         IN {Append(sh, rgb_to_hex(x)) :
                sh \in ShadesOfBase(base, n, dark_mode, k - 1), x \in rgbs}

\* shades(base_hex, n, dark_mode): the lists it can return
shades(base_hex, n, dark_mode) ==
    LET parsed == hex_to_rgb(base_hex)
        base == IF parsed = None THEN DefaultBase ELSE parsed[1]
    IN ShadesOfBase(base, n, dark_mode, n)

\* the characters of the base colors
BaseChars == {"#", "a", "f", "-"}

BaseColors == UNION {[1..k -> BaseChars] : k \in 0..MaxBaseLen}

NoFrame == [nrows |-> 0, cols |-> <<>>]

InitShades ==
    /\ df = NoFrame
    /\ \E base_hex \in BaseColors, n \in 1..MaxShades, dark_mode \in BOOLEAN :
          args = [fn |-> "shades", base_hex |-> base_hex, n |-> n, dark_mode |-> dark_mode]
    /\ pc = "ready"
    /\ ret = None

CallShades ==
    /\ pc = "ready"
    /\ args.fn = "shades"
    /\ ret' \in shades(args.base_hex, args.n, args.dark_mode)
    /\ pc' = "done"
    /\ UNCHANGED <<df, args>>

NextShades == CallShades

SpecShades == InitShades /\ [][NextShades]_vars

\* --------------------------------------------------------------------- C12
ShadesDone == pc = "done" /\ args.fn = "shades"

\* a 7-character hex color: "#" and six hexadecimal digits
WellFormedHex(s) ==
    /\ Len(s) = 7
    /\ s[1] = "#"
    /\ \A j \in 2..7 : IsHexDigit(s[j])

\* C12: for every base color, valid or malformed, every N >= 1 and both
\* dark_mode values, shades returns exactly N colors, each a well-formed
\* 7-character hex string.
C12_PaletteWellFormed ==
    ShadesDone =>
        /\ Len(ret) = args.n
        /\ \A i \in 1..Len(ret) : WellFormedHex(ret[i])


\* ------------------------------------------------------------- C13 .. C15
\* a well-formed color: at most one "#", then 3 or 6 hexadecimal digits
WellFormedBase(h) ==
    LET body == IF h # <<>> /\ h[1] = "#" THEN Tail(h) ELSE h
    IN /\ Len(body) \in {3, 6}
       /\ \A i \in 1..Len(body) : IsHexDigit(body[i])

\* the channels of a well-formed base color
BaseChannels(h) ==
    LET body == IF h[1] = "#" THEN Tail(h) ELSE h
        six == IF Len(body) = 3
               THEN <<body[1], body[1], body[2], body[2], body[3], body[3]>>
               ELSE body
    IN [k \in 1..3 |-> 16 * HexVal(six[2 * k - 1]) + HexVal(six[2 * k])]

\* the channels of a returned shade
ShadeChannels(s) == [k \in 1..3 |-> 16 * HexVal(s[2 * k]) + HexVal(s[2 * k + 1])]

\* C13 as stated: for N = 1 and a valid base color the palette is the
\* one-element list holding the base color unchanged.
C13_SingleShadeIsBase ==
    (ShadesDone /\ args.n = 1 /\ WellFormedBase(args.base_hex)) =>
        /\ Len(ret) = 1
        /\ WellFormedHex(ret[1])
        /\ ShadeChannels(ret[1]) = BaseChannels(args.base_hex)

\* c is int() of the float nearest to v / 100
TruncatedHundredths(c, v) == 100 * c <= v /\ v <= 100 * (c + 1)

\* C13 amended: for N = 1 and a valid base color the palette is one color,
\* not the base: in dark mode each channel is the base channel moved 5% of the
\* way to 245, in light mode it is 250 moved 20% of the way to the base
\* channel, truncated to a whole number.
C13_SingleShadeIsMixed ==
    (ShadesDone /\ args.n = 1 /\ WellFormedBase(args.base_hex)) =>
        /\ Len(ret) = 1
        /\ WellFormedHex(ret[1])
        /\ \A k \in 1..3 :
              LET a == BaseChannels(args.base_hex)[k]
                  c == ShadeChannels(ret[1])[k]
              IN IF args.dark_mode
                 THEN TruncatedHundredths(c, 95 * a + 5 * 245)
                 ELSE TruncatedHundredths(c, 80 * 250 + 20 * a)

\* shades("#ffffff", 1, True) is ["#fefefe"]
C13_Witness ==
    /\ ShadesDone
    /\ args.n = 1
    /\ args.dark_mode
    /\ args.base_hex = <<"#", "f", "f", "f", "f", "f", "f">>
    /\ ret = << <<"#", "f", "e", "f", "e", "f", "e">> >>

\* channel k never falls along the list
NonDecreasing(k) ==
    \A i \in 1..(Len(ret) - 1) : ShadeChannels(ret[i])[k] <= ShadeChannels(ret[i + 1])[k]

\* channel k never rises along the list
NonIncreasing(k) ==
    \A i \in 1..(Len(ret) - 1) : ShadeChannels(ret[i])[k] >= ShadeChannels(ret[i + 1])[k]

\* C14 as stated: for a valid base color and N >= 2 no two adjacent shades
\* are equal and the channel values move in one direction along the list.
C14_StrictlyMonotonic ==
    (ShadesDone /\ args.n >= 2 /\ WellFormedBase(args.base_hex)) =>
        /\ \A i \in 1..(Len(ret) - 1) : ret[i] # ret[i + 1]
        /\ \/ \A k \in 1..3 : NonDecreasing(k)
           \/ \A k \in 1..3 : NonIncreasing(k)

\* C14 amended: for a valid base color and N >= 2 every channel, taken
\* alone, moves in one direction along the list without ever turning back:
\* in dark mode toward 245, in light mode from 250 toward the base channel.
\* Adjacent shades can be equal and two channels can move in opposite
\* directions.
C14_ChannelwiseMonotonic ==
    (ShadesDone /\ args.n >= 2 /\ WellFormedBase(args.base_hex)) =>
        /\ \A i \in 1..Len(ret) : WellFormedHex(ret[i])
        /\ \A k \in 1..3 :
              LET a == BaseChannels(args.base_hex)[k]
              IN IF args.dark_mode
                 THEN IF a <= 245 THEN NonDecreasing(k) ELSE NonIncreasing(k)
                 ELSE IF a >= 250 THEN NonDecreasing(k) ELSE NonIncreasing(k)

\* shades("#ffaaaa", 3, False): red rises, green and blue fall
C14_Witness ==
    /\ ShadesDone
    /\ args.n = 3
    /\ ~args.dark_mode
    /\ args.base_hex = <<"#", "f", "f", "a", "a", "a", "a">>
    /\ ShadeChannels(ret[1])[1] < ShadeChannels(ret[3])[1]
    /\ ShadeChannels(ret[1])[2] > ShadeChannels(ret[3])[2]

\* the default base color (59, 130, 246) as a str
DefaultBaseHex == <<"3", "b", "8", "2", "f", "6">>

\* C15: for every base color string that is not a well-formed 3- or 6-digit
\* hex color shades returns the palette it returns for the default base color
\* (59, 130, 246).
C15_MalformedFallsBack ==
    (ShadesDone /\ ~WellFormedBase(args.base_hex)) =>
        ret \in shades(DefaultBaseHex, args.n, args.dark_mode)


\* ------------------------------------- calls of column_quality_summary
\* the values of the columns "A", "N" (numbers) and "B" (str)
QualityValues(name) ==
    IF name = "A" THEN {1, 2} ELSE IF name = "N" THEN {1} ELSE {"x", "y"}

\* the frame with the columns of layout l, n rows and the given cells
QualityFrame(l, n, va, vb, vn) ==
    [nrows |-> n,
     cols |-> [i \in 1..Len(l) |->
                 IF l[i] = "A" THEN NumberColumn("A", va)
                 ELSE IF l[i] = "N" THEN NumberColumn("N", vn)
                 ELSE ObjectColumn("B", vb)]]

QualityLayouts == {SubSeq(l, 1, k) : l \in {<<"A", "B", "N">>, <<"N", "B", "A">>}, k \in 0..3}

InitQuality ==
    /\ \E n \in 0..MaxQualityRows, l \in QualityLayouts :
          \E va \in [1..n -> Cells(QualityValues("A"))],
             vb \in [1..n -> Cells(QualityValues("B"))],
             vn \in [1..n -> Cells(QualityValues("N"))] :
             df = QualityFrame(l, n, va, vb, vn)
    /\ args = [fn |-> "column_quality_summary"]
    /\ pc = "ready"
    /\ ret = None

CallColumnQualitySummary ==
    /\ pc = "ready"
    /\ args.fn = "column_quality_summary"
    /\ IF column_quality_summary_raises(df) = None
       THEN /\ ret' = column_quality_summary(df)
            /\ pc' = "done"
       ELSE /\ ret' = column_quality_summary_raises(df)
            /\ pc' = "raised"
    /\ UNCHANGED <<df, args>>

NextQuality == CallColumnQualitySummary

SpecQuality == InitQuality /\ [][NextQuality]_vars

\* --------------------------------------------------------------------- C16
QualityDone == pc = "done" /\ args.fn = "column_quality_summary"

\* the number of missing cells of the column named name
MissingCells(name) ==
    Cardinality({i \in 1..df.nrows : Column(df, name).vals[i] = Missing})

\* p hundredths of a percent is part / whole * 100 rounded to 2 decimals
IsRoundedPercent(p, part, whole) ==
    /\ 2 * (p * whole - 10000 * part) <= whole
    /\ 2 * (10000 * part - p * whole) <= whole

\* C16: for every column of every dataset column_quality_summary reports
\* missing_percent equal to missing_count / total_rows * 100 rounded to 2
\* decimals, missing_count being the number of missing cells of the column,
\* and 0.0 when the dataset has 0 rows; missing_percent is within 0..100.
C16_MissingPercent ==
    QualityDone =>
        /\ {ret[i].column : i \in 1..Len(ret)} = Range(ColumnNames(df))
        /\ Len(ret) = Len(df.cols)
        /\ \A i \in 1..Len(ret) :
              /\ ret[i].missing = MissingCells(ret[i].column)
              /\ IF df.nrows = 0 THEN ret[i].missing_percent = 0
                 ELSE IsRoundedPercent(ret[i].missing_percent, ret[i].missing, df.nrows)
              /\ ret[i].missing_percent \in 0..10000

\* 2 missing cells of 3 are 66.67 percent, 1 of 3 are 33.33 percent
C16_Witness ==
    /\ QualityDone
    /\ df.nrows = 3
    /\ \E i, j \in 1..Len(ret) :
          /\ ret[i].missing = 2 /\ ret[i].missing_percent = 6667
          /\ ret[j].missing = 1 /\ ret[j].missing_percent = 3333

\* --------------------------------------------------------------------- C20
\* the number of distinct non-missing values of the column named name
DistinctValues(name) ==
    Cardinality({Column(df, name).vals[i] : i \in 1..df.nrows} \ {Missing})

\* C20: the quality table is ordered by missing count descending and, among
\* columns of equal missing count, by distinct-value count descending: for
\* every adjacent pair of rows (r, s), r.missing > s.missing, or
\* r.missing = s.missing and r.unique >= s.unique.
C20_QualityOrder ==
    QualityDone =>
        /\ \A i \in 1..Len(ret) : ret[i].unique = DistinctValues(ret[i].column)
        /\ \A i \in 1..(Len(ret) - 1) :
              \/ ret[i].missing > ret[i + 1].missing
              \/ /\ ret[i].missing = ret[i + 1].missing
                 /\ ret[i].unique >= ret[i + 1].unique

\* three columns in the order N, B, A come out as B, A, N: B has the most
\* missing cells, A and N have equally many and A has more distinct values
C20_Witness ==
    /\ QualityDone
    /\ ColumnNames(df) = <<"N", "B", "A">>
    /\ [i \in 1..Len(ret) |-> ret[i].column] = <<"B", "A", "N">>
    /\ ret[2].missing = ret[3].missing
    /\ ret[2].unique > ret[3].unique


\* ------------------------ build_report_summary and compute_numeric_stats
\* pd.to_numeric(series, errors="coerce"): numbers stay, a str that is not
\* the text of a number becomes NaN
ToNumericCoerce(col) ==
    IF col.dtype = "number" THEN col.vals
    ELSE [i \in 1..Len(col.vals) |-> Missing]

NotAvailable == PyValue("str", "N/A")

\* compute_numeric_stats (app.py)
compute_numeric_stats(d, col) ==
    LET s == ToNumericCoerce(Column(d, col))
        x == Numbers(s)
    IN IF x = <<>>
       THEN [sum |-> NotAvailable, mean |-> NotAvailable, median |-> NotAvailable,
             min |-> NotAvailable, max |-> NotAvailable]
       ELSE [sum |-> PyValue("float", Frac(SumSeq(x), 1)),
             mean |-> PyValue("float", SeriesMean(s)),
             median |-> PyValue("float", SeriesMedian(s)),
             min |-> PyValue("float", SeriesMin(s)),
             max |-> PyValue("float", SeriesMax(s))]

SummaryLayouts == {SubSeq(l, 1, k) : l \in {<<"A", "B">>, <<"B", "A">>}, k \in 0..2}

\* None or one of the columns cols
OptOf(cols) == {None} \cup {Some(c) : c \in Range(cols)}

InitSummary ==
    /\ \E n \in 0..MaxSummaryRows, l \in SummaryLayouts :
          \E va \in [1..n -> Cells(QualityValues("A"))],
             vb \in [1..n -> Cells(QualityValues("B"))] :
             df = QualityFrame(l, n, va, vb, <<>>)
    /\ args = [fn |-> "summary"]
    /\ pc = "ready"
    /\ ret = None

\* build_report_summary as build_visuals calls it (report_ai.py:209): the
\* primary columns are None or columns of the lists
CallBuildReportSummary ==
    /\ pc = "ready"
    /\ args.fn = "summary"
    /\ \E primary_numeric \in OptOf(pick_numeric_columns(df)),
          primary_cat \in OptOf(pick_non_numeric_columns(df)) :
          ret' = [call |-> "build_report_summary",
                  primary_numeric |-> primary_numeric,
                  primary_cat |-> primary_cat,
                  result |-> build_report_summary(df, pick_numeric_columns(df),
                                                  pick_non_numeric_columns(df),
                                                  primary_numeric, primary_cat)]
    /\ pc' = "done"
    /\ UNCHANGED <<df, args>>

CallComputeNumericStats ==
    /\ pc = "ready"
    /\ args.fn = "summary"
    /\ \E col \in Range(ColumnNames(df)) :
          ret' = [call |-> "compute_numeric_stats",
                  col |-> col,
                  result |-> compute_numeric_stats(df, col)]
    /\ pc' = "done"
    /\ UNCHANGED <<df, args>>

NextSummary == CallBuildReportSummary \/ CallComputeNumericStats

SpecSummary == InitSummary /\ [][NextSummary]_vars

\* --------------------------------------------------------------------- C17
SummaryDone ==
    pc = "done" /\ args.fn = "summary" /\ ret.call = "build_report_summary"

\* the rows of column name that are not missing
PresentRows(name) == {i \in 1..df.nrows : Column(df, name).vals[i] # Missing}

\* the sum of the values of column name over the rows rows
RECURSIVE SumOver(_, _)
SumOver(name, rows) ==
    IF rows = {} THEN 0
    ELSE LET i == CHOOSE j \in rows : TRUE
         IN Column(df, name).vals[i][1] + SumOver(name, rows \ {i})

\* the missing cells of the whole dataset
AllMissingCells ==
    {<<c, i>> \in (1..Len(df.cols)) \X (1..df.nrows) : df.cols[c].vals[i] = Missing}

SummaryWithNumbers ==
    /\ SummaryDone
    /\ ret.primary_numeric # None
    /\ PresentRows(ret.primary_numeric[1]) # {}

\* C17 as stated: for the Summary built with a primary numeric column the
\* mean field equals the arithmetic mean of the column's non-missing values
\* as a number (1.5 for 1, 2, missing), and the missing-cells field equals the
\* number of missing cells over all columns and rows.
C17_MeanIsNumber ==
    SummaryWithNumbers =>
        LET name == ret.primary_numeric[1]
            field == ret.result.primary_mean
        IN /\ field # None
           /\ field[1].type \in {"int", "float"}
           /\ field[1].value * Cardinality(PresentRows(name))
                 = SumOver(name, PresentRows(name))
           /\ ret.result.total_missing_cells = Cardinality(AllMissingCells)

\* C17 amended: the mean field is a str, the arithmetic mean of the column's
\* non-missing values formatted with two decimals ("1.50" for 1, 2, missing),
\* and the missing-cells field equals the number of missing cells over all
\* columns and rows.
C17_MeanIsFormatted ==
    SummaryWithNumbers =>
        LET name == ret.primary_numeric[1]
            field == ret.result.primary_mean
            count == Cardinality(PresentRows(name))
            total == SumOver(name, PresentRows(name))
        IN /\ field # None
           /\ field[1].type = "str"
           /\ 2 * (field[1].hundredths * count - 100 * total) <= count
           /\ 2 * (100 * total - field[1].hundredths * count) <= count
           /\ ret.result.total_missing_cells = Cardinality(AllMissingCells)

\* the dataset [{A:1,B:"x"}, {A:2,B:"y"}, {A:None,B:"x"}] with primary
\* numeric column A: the mean field is "1.50", one cell is missing
C17_Witness ==
    /\ SummaryDone
    /\ df.nrows = 3
    /\ ColumnNames(df) = <<"A", "B">>
    /\ Column(df, "A").vals = <<Some(1), Some(2), Missing>>
    /\ Column(df, "B").vals = <<Some("x"), Some("y"), Some("x")>>
    /\ ret.primary_numeric = Some("A")
    /\ ret.result.primary_mean[1].type = "str"
    /\ ret.result.primary_mean[1].hundredths = 150
    /\ ret.result.total_missing_cells = 1

\* --------------------------------------------------------------------- C18
StatsDone ==
    pc = "done" /\ args.fn = "summary" /\ ret.call = "compute_numeric_stats"

FrameAfterFilledInPlace(d, sel) ==
    [nrows |-> d.nrows,
     cols |-> [i \in 1..Len(d.cols) |->
                 IF Truthy(sel.primary_cat) /\ d.cols[i].name = sel.primary_cat[1]
                 THEN ObjectColumn(d.cols[i].name, AsStringFillna(d.cols[i].vals, "Missing"))
                 ELSE d.cols[i]]]

\* the caller's frame after a call made with the selection sel: build_visuals
\* and the functions it calls assign to no column of df and call no in-place
\* method on it; astype, fillna, where, sort_values and head return new objects
FrameAfter(d, sel) == d

\* the dicts of the repeated calls: nothing chosen, or a primary column
TwiceUserChoices ==
    {EngineChoices(p, None, None, v, None, None) : p \in {None, Some("A")}, v \in {None, Some("C")}}

InitTwice ==
    /\ df \in DataFrames
    /\ \E u \in TwiceUserChoices, k \in 1..MaxK :
          args = [fn |-> "build_visuals twice",
                  report_type |-> "Overview",
                  instructions |-> <<>>,
                  user_choices |-> u,
                  max_categories |-> k]
    /\ pc = "ready"
    /\ ret = <<>>

\* one more call of build_visuals on the frame the caller holds
CallBuildVisualsAgain ==
    /\ pc \in {"ready", "once"}
    /\ args.fn = "build_visuals twice"
    /\ LET exc == build_visuals_raises(df, args.report_type, args.instructions,
                                       args.user_choices, args.max_categories)
           sel == Selection(df, args.instructions, args.user_choices)
       IN /\ ret' = Append(ret, [exc |-> exc,
                                 result |-> IF exc = None
                                            THEN BuildCharts(df, sel, args.max_categories)
                                            ELSE <<>>,
                                 before |-> df])
          /\ df' = IF exc = None THEN FrameAfter(df, sel) ELSE df
    /\ pc' = IF pc = "ready" THEN "once" ELSE "twice"
    /\ UNCHANGED args

NextTwice == CallBuildVisualsAgain

SpecTwice == InitTwice /\ [][NextTwice]_vars

MaxClassifyRows == 2

\* the cell values of the columns of the classification frames
ClassifyValues(name) ==
    IF name = "A" THEN {1}
    ELSE IF name = "B" THEN {"x", Text29, Text31}
    ELSE {Text30}

ClassifyFrame(l, n, va, vb, vc) ==
    [nrows |-> n,
     cols |-> [i \in 1..Len(l) |->
                 IF l[i] = "A" THEN NumberColumn("A", va)
                 ELSE IF l[i] = "B" THEN ObjectColumn("B", vb)
                 ELSE ObjectColumn("C", vc)]]

ClassifyLayouts == {SubSeq(l, 1, k) : l \in {<<"A", "B", "C">>, <<"C", "B", "A">>}, k \in 0..3}

NoChoices == EngineChoices(None, None, None, None, None, None)

InitClassify ==
    /\ \E n \in 0..MaxClassifyRows, l \in ClassifyLayouts :
          \E va \in [1..n -> Cells(ClassifyValues("A"))],
             vb \in [1..n -> Cells(ClassifyValues("B"))],
             vc \in [1..n -> Cells(ClassifyValues("C"))] :
             df = ClassifyFrame(l, n, va, vb, vc)
    /\ args = [fn |-> "build_visuals",
               report_type |-> "Overview",
               instructions |-> <<>>,
               user_choices |-> NoChoices,
               max_categories |-> DefaultMaxCategories]
    /\ pc = "ready"
    /\ ret = None

SpecClassify == InitClassify /\ [][Next]_vars

\* the rows of column col that hold a value
PresentCells(col) == {i \in 1..df.nrows : Column(df, col).vals[i] # Missing}

RECURSIVE TotalLength(_, _)
TotalLength(col, rows) ==
    IF rows = {} THEN 0
    ELSE LET i == CHOOSE r \in rows : TRUE
         IN StrLen(Column(df, col).vals[i][1]) + TotalLength(col, rows \ {i})

\* at least one value, and the mean length of the values is >= 30
LongOnAverage(col) ==
    /\ PresentCells(col) # {}
    /\ TotalLength(col, PresentCells(col)) >= 30 * Cardinality(PresentCells(col))

NonNumericCols == pick_non_numeric_columns(df)

Classified == Selection(df, args.instructions, args.user_choices)

TextLengthCharts ==
    {i \in 1..Len(Visuals) : Visuals[i].fig.title[1] = "Text length distribution: "}

\* C21: a non-numeric column is text_like exactly when it has a value and the
\* mean length of its values is >= 30; the numeric, categorical and text_like
\* columns are pairwise disjoint and together are all the columns.  The
\* returned tables and charts follow the classification: numeric_df lists the
\* numeric columns, categorical_df the categorical ones, and the text-length
\* chart is on the first text_like column.
C21_TextLikeClassification ==
    BVDone =>
        LET sel == Classified
            num == Range(sel.numeric_cols)
            cat == Range(sel.cat_cols)
            txt == Range(sel.text_like_cols)
        IN /\ \A c \in Range(NonNumericCols) : (c \in txt) <=> LongOnAverage(c)
           /\ num \cap cat = {} /\ num \cap txt = {} /\ cat \cap txt = {}
           /\ num \cup cat \cup txt = Range(ColumnNames(df))
           /\ txt \subseteq Range(NonNumericCols)
           /\ [i \in 1..Len(ret[5]) |-> ret[5][i].column]
                 = SelectSeq(NonNumericCols, LAMBDA c : ~LongOnAverage(c))
           /\ [i \in 1..Len(ret[4]) |-> ret[4][i].column] = NumericCols
           /\ (TextLengthCharts # {}) <=> (\E c \in Range(NonNumericCols) : LongOnAverage(c))
           /\ \A i \in TextLengthCharts :
                 Visuals[i].fig.title[2]
                    = SelectSeq(NonNumericCols, LAMBDA c : LongOnAverage(c))[1]

\* a frame of two rows where B holds a 29- and a 31-character value (mean
\* exactly 30) and is text_like, beside a column with no value at all that is
\* categorical
C21_Witness ==
    /\ BVDone
    /\ df.nrows = 2
    /\ "B" \in Range(NonNumericCols)
    /\ {Column(df, "B").vals[i] : i \in 1..2} = {Some(Text29), Some(Text31)}
    /\ "B" \in Range(Classified.text_like_cols)
    /\ \E c \in Range(Classified.cat_cols) : PresentCells(c) = {}
    /\ TextLengthCharts # {}

\* ---------------------------------------------------------------------------
\* The columns build_visuals chooses (lines 206-207 and 231-256)
\* ---------------------------------------------------------------------------

\* the frames: numeric columns A and N, object columns B, C and D whose cells
\* are missing, short or 30 characters long
ChooseLayouts ==
    {<<"B", "C", "D">>, <<"D", "C", "B">>, <<"B", "C">>,
     <<"A", "N">>, <<"N", "A">>, <<"B", "N", "A">>}

ChooseFrame(l, n, vb, vc, vd) ==
    [nrows |-> n,
     cols |-> [i \in 1..Len(l) |->
                 IF l[i] = "A" THEN NumberColumn("A", [r \in 1..n |-> Some(1)])
                 ELSE IF l[i] = "N" THEN NumberColumn("N", [r \in 1..n |-> Some(2)])
                 ELSE IF l[i] = "B" THEN ObjectColumn("B", vb)
                 ELSE IF l[i] = "C" THEN ObjectColumn("C", vc)
                 ELSE ObjectColumn("D", vd)]]

\* a dict without any key
EmptyChoices == [k \in {} |-> None]

\* the category choices, naming categorical and text-like columns alike, and
\* the calls that give no primary numeric column
ChooseUserChoices ==
    {EngineChoices(None, None, None, v, ab[1], ab[2]) :
        v \in {None, Some("B"), Some("C")},
        ab \in {<<None, None>>, <<Some("B"), Some("C")>>,
                <<Some("D"), Some("B")>>, <<Some("C"), Some("D")>>}}
    \cup {EmptyChoices}

InitChoose ==
    /\ \E n \in 0..MaxRows, l \in ChooseLayouts :
          \E vb \in [1..n -> Cells(ObjectValues)],
             vc \in [1..n -> Cells(ObjectValues)],
             vd \in [1..n -> Cells(ObjectValues)] :
             df = ChooseFrame(l, n, vb, vc, vd)
    /\ \E u \in ChooseUserChoices, ins \in Instructions :
          args = [fn |-> "build_visuals",
                  report_type |-> "Overview",
                  instructions |-> ins,
                  user_choices |-> u,
                  max_categories |-> DefaultMaxCategories]
    /\ pc = "ready"
    /\ ret = None

SpecChoose == InitChoose /\ [][Next]_vars

TextLike == {c \in Range(NonNumericCols) : LongOnAverage(c)}

NamesTextLike(key) == Truthy(Choice(key)) /\ Choice(key)[1] \in TextLike

NoPrimaryNumeric == Choice("primary_numeric") = None

\* C24 as stated: when user_choices gives no primary_numeric and the dataset
\* has a numeric column, the Summary and the histogram use the first numeric
\* column in dataset order, whatever the other arguments are.
C24_DefaultIsFirstNumeric ==
    (BVDone /\ NoPrimaryNumeric /\ NumericCols # <<>>) =>
        /\ ret[1].primary_numeric_column = Some(NumericCols[1])
        /\ Histograms # {}
        /\ \A i \in Histograms : Visuals[i].fig.x = NumericCols[1]

\* C24 amended: when user_choices gives no primary_numeric and the dataset
\* has a numeric column, the Summary and the histogram use the first numeric
\* column whose lower-cased name occurs in the lower-cased instructions, and
\* the first numeric column in dataset order when the instructions name none.
C24_DefaultIsMentionedElseFirst ==
    (BVDone /\ NoPrimaryNumeric /\ NumericCols # <<>>) =>
        /\ ret[1].primary_numeric_column = Some(Inferred(NumericCols))
        /\ Histograms # {}
        /\ \A i \in Histograms : Visuals[i].fig.x = Inferred(NumericCols)
        /\ Mentioned(NumericCols) = {} => Inferred(NumericCols) = NumericCols[1]

\* the dict has no primary_numeric key, the instructions name N, and the
\* Summary and the histogram are on N although A comes first
C24_Witness ==
    /\ BVDone
    /\ "primary_numeric" \notin DOMAIN args.user_choices
    /\ NumericCols = <<"A", "N">>
    /\ args.instructions = <<"N", " ", "b">>
    /\ ret[1].primary_numeric_column = Some("N")
    /\ \E i \in Histograms : Visuals[i].fig.x = "N"

\* ---------------------------------------------------------------------------
\* The number of values the category-relationship chart keeps
\* (build_visuals, lines 242-251)
\* ---------------------------------------------------------------------------

MaxCapRows == 21

CategoryLabels ==
    <<"a", "b", "c", "d", "e", "f", "g", "h", "i", "j", "k", "l", "m",
      "n", "o", "p", "q", "r", "s", "t", "u", "v", "w", "x", "y", "z">>

\* a column of n rows that holds d distinct values, row after row in turn
CycleColumn(n, d) == [i \in 1..n |-> Some(CategoryLabels[((i - 1) % d) + 1])]

\* values of the Max Categories slider (5 to 50) around the limit of 15
MaxCategoriesValues == {5, 15, 16, 20}

InitCap ==
    /\ \E n \in 1..MaxCapRows :
          \E db \in 1..n, dc \in {1, n} :
             df = [nrows |-> n,
                   cols |-> <<ObjectColumn("B", CycleColumn(n, db)),
                              ObjectColumn("C", CycleColumn(n, dc))>>]
    /\ \E u \in {NoChoices,
                 EngineChoices(None, None, None, None, Some("C"), Some("B"))},
          k \in MaxCategoriesValues :
          args = [fn |-> "build_visuals",
                  report_type |-> "Overview",
                  instructions |-> <<>>,
                  user_choices |-> u,
                  max_categories |-> k]
    /\ pc = "ready"
    /\ ret = None

SpecCap == InitCap /\ [][Next]_vars

DistinctOf(col) == {Column(df, col).vals[i][1] : i \in PresentCells(col)}

\* the labels of an axis of the cross-tab that are values of the column
OwnValues(labels) == labels \ {"Other"}

\* the columns of heatmap i with the labels of their axes
HeatmapAxes(i) ==
    {<<Visuals[i].fig.y, Visuals[i].fig.data.index>>,
     <<Visuals[i].fig.x, Visuals[i].fig.data.columns>>}

\* C23 as stated: in the category-relationship chart a column with at least
\* max_categories distinct values contributes exactly max_categories of its
\* own values to the cross-tab, for the max_categories the caller passed.
C23_TruncatedToCallerMax ==
    BVDone =>
        \A i \in Heatmaps : \A ax \in HeatmapAxes(i) :
            Cardinality(DistinctOf(ax[1])) >= args.max_categories
               => Cardinality(OwnValues(ax[2])) = args.max_categories

\* C23 amended: in the category-relationship chart each column is truncated
\* to its top min(max_categories, 15) values: a column with at least that
\* many distinct values contributes exactly min(max_categories, 15) of its
\* own values, a column with fewer contributes all of them.
C23_TruncatedToCappedMax ==
    BVDone =>
        \A i \in Heatmaps : \A ax \in HeatmapAxes(i) :
            LET limit == IF args.max_categories < 15 THEN args.max_categories ELSE 15
                distinct == DistinctOf(ax[1])
            IN /\ OwnValues(ax[2]) \subseteq distinct
               /\ Cardinality(distinct) >= limit
                     => Cardinality(OwnValues(ax[2])) = limit
               /\ Cardinality(distinct) <= limit => ax[2] = distinct
               /\ Cardinality(distinct) > limit => "Other" \in ax[2]

\* max_categories is 20 and column B holds 20 distinct values: the cross-tab
\* keeps 15 of them and puts the rest under "Other"
C23_Witness ==
    /\ BVDone
    /\ args.max_categories = 20
    /\ Cardinality(DistinctOf("B")) = 20
    /\ \E i \in Heatmaps : \E ax \in HeatmapAxes(i) :
          /\ ax[1] = "B"
          /\ Cardinality(OwnValues(ax[2])) = 15
          /\ "Other" \in ax[2]

\* ---------------------------------------------------------------------------
\* read_df (app.py, lines 21-31)
\* ---------------------------------------------------------------------------

\* An uploaded file is its name, a str, and its content: Some of the header
\* cells and the columns of cells a parser finds in it, a cell being missing
\* or a PyValue, or None for bytes that pd.read_csv / pd.read_excel cannot
\* parse.
UploadedFile(name, content) == [name |-> name, content |-> content]

\* s.endswith(suffix)
EndsWith(s, suffix) ==
    /\ Len(s) >= Len(suffix)
    /\ SubSeq(s, Len(s) - Len(suffix) + 1, Len(s)) = suffix

\* the names the parser gives the columns: a header that repeats an earlier
\* one gets the suffix ".1", ".2", ...
MangleDupes(header) ==
    [i \in 1..Len(header) |->
        LET k == Cardinality({j \in 1..(i - 1) : header[j] = header[i]})
        IN IF k = 0 THEN header[i]
           ELSE header[i] \o <<".", CASE k = 1 -> "1" [] k = 2 -> "2" [] OTHER -> "3">>]

\* the dtype the parser infers: object without rows, float64 for a column
\* without values, else by the values
InferDtype(vals) ==
    IF vals = <<>> THEN "object"
    ELSE IF \A i \in 1..Len(vals) : vals[i] = Missing THEN "number"
    ELSE IF \A i \in 1..Len(vals) : vals[i] # Missing => vals[i][1].type = "int"
         THEN "number"
    ELSE "object"

\* pd.read_csv / pd.read_excel on a content that parses
ParseTable(table) ==
    LET names == MangleDupes(table.header)
    IN [nrows |-> table.nrows,
        cols |-> [i \in 1..Len(names) |->
                    [name |-> names[i],
                     dtype |-> InferDtype(table.vals[i]),
                     vals |-> [r \in 1..table.nrows |->
                                 IF table.vals[i][r] = Missing THEN Missing
                                 ELSE Some(table.vals[i][r][1].value)]]]]

\* df.dropna(axis=1, how="all"): the columns with at least one value
DropnaAllColumns(d) ==
    [nrows |-> d.nrows,
     cols |-> SelectSeq(d.cols, LAMBDA col : \E i \in 1..d.nrows : col.vals[i] # Missing)]

FrameRow(d, i) == [j \in 1..Len(d.cols) |-> d.cols[j].vals[i]]

\* df.drop_duplicates(): of the rows that are equal, missing cells included,
\* the first one is kept
DropDuplicates(d) ==
    LET keptIdx == {i \in 1..d.nrows : \A j \in 1..(i - 1) : FrameRow(d, j) # FrameRow(d, i)}
        KeepRows(vals) == SelectSeq([i \in 1..d.nrows |-> <<i, vals[i]>>],
                                    LAMBDA p : p[1] \in keptIdx)
    IN [nrows |-> Cardinality(keptIdx),
        cols |-> [c \in 1..Len(d.cols) |->
                    [name |-> d.cols[c].name,
                     dtype |-> d.cols[c].dtype,
                     vals |-> LET k == KeepRows(d.cols[c].vals)
                              IN [i \in 1..Len(k) |-> k[i][2]]]]]

\* df.columns = [str(c).strip() for c in df.columns]
StripColumns(d) ==
    [nrows |-> d.nrows,
     cols |-> [c \in 1..Len(d.cols) |->
                 [name |-> StripSpace(d.cols[c].name),
                  dtype |-> d.cols[c].dtype,
                  vals |-> d.cols[c].vals]]]

\* the exception read_df raises, None when it returns
read_df_raises(uploaded_file) ==
    LET name == LowerSeq(uploaded_file.name)
    IN IF \/ EndsWith(name, <<".", "c", "s", "v">>)
          \/ EndsWith(name, <<".", "x", "l", "s", "x">>)
          \/ EndsWith(name, <<".", "x", "l", "s">>)
       THEN IF uploaded_file.content = None THEN Some("ParserError") ELSE None
       ELSE Some("ValueError")

read_df(uploaded_file) ==
    StripColumns(DropDuplicates(DropnaAllColumns(ParseTable(uploaded_file.content[1]))))

MaxHeaders == 2

MaxReadRows == 2

\* header cells: a, b and a with a blank before or after it
HeaderCells == {<<"a">>, <<" ", "a">>, <<"a", " ">>, <<"b">>}

\* the cell under a header: a number under a, text under b
HeaderValue(h) ==
    IF StripSpace(h) = <<"a">> THEN PyValue("int", 1) ELSE PyValue("str", "x")

FileNames ==
    {<<"d", ".", "c", "s", "v">>, <<"D", ".", "X", "L", "S", "X">>, <<"d", ".", "x", "l", "s">>}

\* names that do not end in an accepted extension
OtherFileNames == {<<"d", ".", "t", "x", "t">>, <<"c", "s", "v">>}

UploadedTable(name, header, n, vals) ==
    UploadedFile(name, Some([header |-> header, nrows |-> n, vals |-> vals]))

\* the uploads: every table of up to MaxHeaders columns and MaxReadRows rows
\* under an accepted name, and files that are rejected or do not parse
InitRead ==
    /\ df = NoFrame
    /\ \/ \E name \in FileNames, k \in 0..MaxHeaders, n \in 0..MaxReadRows :
             \E header \in [1..k -> HeaderCells] :
                \E present \in [1..k -> [1..n -> BOOLEAN]] :
                   args = [fn |-> "read_df",
                           uploaded_file |->
                              UploadedTable(name, header, n,
                                 [c \in 1..k |-> [i \in 1..n |->
                                     IF present[c][i]
                                     THEN Some(HeaderValue(header[c]))
                                     ELSE Missing]])]
       \/ \E name \in FileNames \cup OtherFileNames :
             args = [fn |-> "read_df", uploaded_file |-> UploadedFile(name, None)]
       \/ \E name \in OtherFileNames :
             args = [fn |-> "read_df",
                     uploaded_file |-> UploadedTable(name, <<<<"a">>>>, 1,
                                                    <<<<Some(PyValue("int", 1))>>>>)]
    /\ pc = "ready"
    /\ ret = None

CallReadDf ==
    /\ pc = "ready"
    /\ args.fn = "read_df"
    /\ IF read_df_raises(args.uploaded_file) = None
       THEN /\ ret' = read_df(args.uploaded_file)
            /\ pc' = "done"
       ELSE /\ ret' = read_df_raises(args.uploaded_file)
            /\ pc' = "raised"
    /\ UNCHANGED <<df, args>>

NextRead == CallReadDf

SpecRead == InitRead /\ [][NextRead]_vars

ReadDone == args.fn = "read_df" /\ pc = "done"

DistinctNames(d) ==
    \A i, j \in 1..Len(d.cols) : i # j => d.cols[i].name # d.cols[j].name

NamesStripped(d) ==
    \A i \in 1..Len(d.cols) :
        LET name == d.cols[i].name
        IN name = <<>> \/ (name[1] # " " /\ name[Len(name)] # " ")

NoEmptyColumn(d) ==
    \A i \in 1..Len(d.cols) : \E r \in 1..d.nrows : d.cols[i].vals[r] # Missing

NoEqualRows(d) ==
    /\ \A c \in 1..Len(d.cols) : Len(d.cols[c].vals) = d.nrows
    /\ \A r, s \in 1..d.nrows : r # s => FrameRow(d, r) # FrameRow(d, s)

\* C25: the dataset read_df returns has column names that are pairwise
\* distinct and carry no leading or trailing whitespace, no column whose
\* every value is missing and no two identical rows, also when two source
\* headers differ only by surrounding whitespace.
C25_ReadDfNormalises ==
    ReadDone => /\ DistinctNames(ret)
                /\ NamesStripped(ret)
                /\ NoEmptyColumn(ret)
                /\ NoEqualRows(ret)

\* what holds of every returned dataset: stripped names, no column without
\* a value, no two identical rows
C25_ExceptDistinctNames ==
    ReadDone => /\ NamesStripped(ret)
                /\ NoEmptyColumn(ret)
                /\ NoEqualRows(ret)

\* the headers "a" and " a" end as two columns named "a"
C25_SameNameTwice ==
    /\ ReadDone
    /\ args.uploaded_file.content[1].header = << <<"a">>, <<" ", "a">> >>
    /\ Len(ret.cols) = 2
    /\ ret.cols[1].name = <<"a">>
    /\ ret.cols[2].name = <<"a">>

\* ---------------------------------------------------------------------------
\* One run of the app script from the upload on (app.py, lines 875-947)
\* ---------------------------------------------------------------------------

\* In a run args holds the widgets' values, df the dataset once read_df has
\* returned it, pc the place the script has reached and ret the calls the
\* script has made so far, in order.

\* lines 892-894: without a file the script shows a hint and stops
NoFileUploaded(file_top) == file_top = None

\* an exception of read_df that no handler catches ends the run
ReadFailedPropagates(exc) == [pc |-> "crashed", shown |-> <<>>]

\* lines 898-900: the handler of an exception of read_df shows it and stops
ReadFailed(exc) == [pc |-> "stopped", shown |-> <<"st.error", "st.stop">>]

InitRun ==
    /\ df = NoFrame
    /\ \E k \in SliderValues :
          \/ args = [fn |-> "app.py run", file_top |-> None, max_categories_main |-> k]
          \/ \E name \in FileNames, c \in 0..MaxHeaders, n \in 0..1 :
                \E header \in [1..c -> HeaderCells] :
                   \E present \in [1..c -> [1..n -> BOOLEAN]] :
                      args = [fn |-> "app.py run",
                              file_top |->
                                 Some(UploadedTable(name, header, n,
                                    [h \in 1..c |-> [i \in 1..n |->
                                        IF present[h][i]
                                        THEN Some(HeaderValue(header[h]))
                                        ELSE Missing]])),
                              max_categories_main |-> k]
          \/ \E name \in FileNames \cup OtherFileNames :
                args = [fn |-> "app.py run",
                        file_top |-> Some(UploadedFile(name, None)),
                        max_categories_main |-> k]
    /\ pc = "upload"
    /\ ret = <<"st.file_uploader">>

\* lines 892-894
UploadGate ==
    /\ pc = "upload"
    /\ args.fn = "app.py run"
    /\ IF NoFileUploaded(args.file_top)
       THEN /\ ret' = ret \o <<"st.info", "st.stop">>
            /\ pc' = "stopped"
       ELSE /\ ret' = ret
            /\ pc' = "read"
    /\ UNCHANGED <<df, args>>

\* lines 896-900
ReadFile ==
    /\ pc = "read"
    /\ LET exc == read_df_raises(args.file_top[1])
       IN IF exc = None
          THEN /\ df' = read_df(args.file_top[1])
               /\ ret' = Append(ret, "read_df")
               /\ pc' = "classify"
          ELSE /\ df' = df
               /\ ret' = Append(ret, "read_df") \o ReadFailed(exc).shown
               /\ pc' = ReadFailed(exc).pc
    /\ UNCHANGED args

\* lines 905-906: the classification of the columns
Classify ==
    /\ pc = "classify"
    /\ ret' = Append(ret, "select_dtypes")
    /\ pc' = "key_statistics"
    /\ UNCHANGED <<df, args>>

\* lines 913-947: the Key Statistics section up to its build_visuals call;
\* an exception of the call is caught nowhere and ends the run
KeyStatistics ==
    /\ pc = "key_statistics"
    /\ \E call \in SiteCalls("key_statistics", df, args.max_categories_main) :
          /\ ret' = ret \o <<"st.subheader", "build_visuals">>
          /\ pc' = IF CallOutcome(call, UnpackTargets).exc = None THEN "kpi" ELSE "crashed"
    /\ UNCHANGED <<df, args>>

NextRun == UploadGate \/ ReadFile \/ Classify \/ KeyStatistics

SpecRun == InitRun /\ [][NextRun]_vars

\* the script runs from top to bottom: a step that can be taken is taken
SpecRunFair == SpecRun /\ WF_vars(NextRun)

Made(call) == \E i \in 1..Len(ret) : ret[i] = call

\* a file was uploaded and read_df returns a dataset for it
DatasetRead ==
    /\ args.file_top # None
    /\ read_df_raises(args.file_top[1]) = None

PastTheGate ==
    \/ pc \in {"classify", "key_statistics", "kpi", "crashed"}
    \/ Made("select_dtypes")
    \/ Made("st.subheader")
    \/ Made("build_visuals")

StoppedWithMessage ==
    /\ pc = "stopped"
    /\ Len(ret) >= 2
    /\ ret[Len(ret)] = "st.stop"
    /\ ret[Len(ret) - 1] = IF args.file_top = None THEN "st.info" ELSE "st.error"

\* C26: in a run of the script nothing past the upload gate happens (no
\* classification, no rendering of statistics or charts, no build_visuals
\* call) unless a file was uploaded and read_df returned a dataset for it;
\* when no file is uploaded or read_df raises, the run shows a message and
\* stops before the classification, and the exception does not propagate.
C26_UploadGate ==
    /\ [](PastTheGate => (DatasetRead /\ Made("read_df")))
    /\ [](~DatasetRead => pc \in {"upload", "read", "stopped"})
    /\ [](pc = "stopped" => StoppedWithMessage)
    /\ ~DatasetRead ~> StoppedWithMessage

\* a file with an unsupported name was uploaded: read_df was called, the
\* error was shown and the run stopped
C26_Witness ==
    /\ args.fn = "app.py run"
    /\ args.file_top # None
    /\ read_df_raises(args.file_top[1]) = Some("ValueError")
    /\ ret = <<"st.file_uploader", "read_df", "st.error", "st.stop">>
    /\ pc = "stopped"
====
